---- MODULE Spec2Model ----
(***************************************************************************)
(* A model of the confetti reader: the Lexer (lexer.go), the character     *)
(* classes and the tree types (types.go) and the recursive-descent Parser  *)
(* (parser.go).                                                            *)
(*                                                                         *)
(* A source text is a sequence of Unicode code points (naturals).  The Go  *)
(* code indexes the text by byte offset; the model's pos counts code       *)
(* points, which is the same cursor seen through utf8.DecodeRuneInString.  *)
(* A Go error value is the tuple <<format string, arguments...>> of the    *)
(* fmt.Errorf call that made it, and nil is the empty tuple.  A pointer is *)
(* the empty tuple (nil) or a one-element tuple holding the pointee.       *)
(***************************************************************************)
EXTENDS Integers, Sequences, FiniteSets, TLC

VARIABLES input, phase, parser, unit, err, tokens, output

vars == <<input, phase, parser, unit, err, tokens, output>>

(***************************************************************************)
(* Bounds of the model.                                                    *)
(***************************************************************************)
MaxLen == 5
MaxPieces == 5
MaxNestLen == 8
MaxCtlPieces == 4
MaxLinePieces == 5
MaxBraceLen == 6

(***************************************************************************)
(* Code points the source names.                                           *)
(***************************************************************************)
LF == 10
VT == 11
FF == 12
CR == 13
CtrlZ == 26
QUOTE == 34
HASH == 35
SEMI == 59
BACKSLASH == 92
LBRACE == 123
RBRACE == 125
NEL == 133
LS == 8232
PS == 8233
BOM == 65279
SPACE == 32
LANGLE == 60
RANGLE == 62
LBRACKET == 91
RBRACKET == 93

(***************************************************************************)
(* types.go: token types (iota).                                           *)
(***************************************************************************)
TokenEOF == 0
TokenNewline == 1
TokenSemicolon == 2
TokenLeftBrace == 3
TokenRightBrace == 4
TokenArgument == 5
TokenComment == 6
TokenLineContinuation == 7

Token(typ, value, line, column) ==
    [Type |-> typ, Value |-> value, Line |-> line, Column |-> column]

\* Token{}: Go's zero value
ZeroToken == Token(TokenEOF, <<>>, 0, 0)

Directive(args, subdirs) == [Arguments |-> args, Subdirectives |-> subdirs]

\* Directive{}: Go's zero value
ZeroDirective == Directive(<<>>, <<>>)

ConfigurationUnit(directives) == [Directives |-> directives]

nil == <<>>

(***************************************************************************)
(* types.go: character classes.  The Unicode tables are the ranges of the  *)
(* Unicode Character Database 15.0.0, which the package unicode of Go 1.21 *)
(* and later carries, for every code point from 0 to U+10FFFF.  A rune is  *)
(* an int32: the operators answer for negative values as the package does. *)
(***************************************************************************)
ValidateUTF8(s) ==
    \A i \in DOMAIN s :
        \/ s[i] >= 0 /\ s[i] <= 55295
        \/ s[i] >= 57344 /\ s[i] <= 1114111

White_Space(r) ==
    \/ r >= 9 /\ r <= 13
    \/ r \in {32, 133, 160, 5760, 8232, 8233, 8239, 8287, 12288}
    \/ r >= 8192 /\ r <= 8202

Cc(r) == (r >= 0 /\ r <= 31) \/ (r >= 127 /\ r <= 159)

Cs(r) == r >= 55296 /\ r <= 57343

Co(r) ==
    \/ r >= 57344 /\ r <= 63743
    \/ r >= 983040 /\ r <= 1048573
    \/ r >= 1048576 /\ r <= 1114109

\* unicode.Cf, as ranges <<lo, hi>>
CfRanges ==
    <<
     <<173, 173>>, <<1536, 1541>>, <<1564, 1564>>, <<1757, 1757>>,
     <<1807, 1807>>, <<2192, 2193>>, <<2274, 2274>>, <<6158, 6158>>,
     <<8203, 8207>>, <<8234, 8238>>, <<8288, 8292>>, <<8294, 8303>>,
     <<65279, 65279>>, <<65529, 65531>>, <<69821, 69821>>, <<69837, 69837>>,
     <<78896, 78911>>, <<113824, 113827>>, <<119155, 119162>>,
     <<917505, 917505>>, <<917536, 917631>>
    >>

Cf(r) ==
    /\ r >= CfRanges[1][1]
    /\ \E i \in DOMAIN CfRanges : CfRanges[i][1] <= r /\ r <= CfRanges[i][2]

\* the code points in no range table of the package unicode (the
\* unassigned code points and the noncharacters), as ranges <<lo, hi>>;
\* the first one is U+0378
CnRanges ==
    <<
     <<888, 889>>, <<896, 899>>, <<907, 907>>, <<909, 909>>, <<930, 930>>,
     <<1328, 1328>>, <<1367, 1368>>, <<1419, 1420>>, <<1424, 1424>>,
     <<1480, 1487>>, <<1515, 1518>>, <<1525, 1535>>, <<1806, 1806>>,
     <<1867, 1868>>, <<1970, 1983>>, <<2043, 2044>>, <<2094, 2095>>,
     <<2111, 2111>>, <<2140, 2141>>, <<2143, 2143>>, <<2155, 2159>>,
     <<2191, 2191>>, <<2194, 2199>>, <<2436, 2436>>, <<2445, 2446>>,
     <<2449, 2450>>, <<2473, 2473>>, <<2481, 2481>>, <<2483, 2485>>,
     <<2490, 2491>>, <<2501, 2502>>, <<2505, 2506>>, <<2511, 2518>>,
     <<2520, 2523>>, <<2526, 2526>>, <<2532, 2533>>, <<2559, 2560>>,
     <<2564, 2564>>, <<2571, 2574>>, <<2577, 2578>>, <<2601, 2601>>,
     <<2609, 2609>>, <<2612, 2612>>, <<2615, 2615>>, <<2618, 2619>>,
     <<2621, 2621>>, <<2627, 2630>>, <<2633, 2634>>, <<2638, 2640>>,
     <<2642, 2648>>, <<2653, 2653>>, <<2655, 2661>>, <<2679, 2688>>,
     <<2692, 2692>>, <<2702, 2702>>, <<2706, 2706>>, <<2729, 2729>>,
     <<2737, 2737>>, <<2740, 2740>>, <<2746, 2747>>, <<2758, 2758>>,
     <<2762, 2762>>, <<2766, 2767>>, <<2769, 2783>>, <<2788, 2789>>,
     <<2802, 2808>>, <<2816, 2816>>, <<2820, 2820>>, <<2829, 2830>>,
     <<2833, 2834>>, <<2857, 2857>>, <<2865, 2865>>, <<2868, 2868>>,
     <<2874, 2875>>, <<2885, 2886>>, <<2889, 2890>>, <<2894, 2900>>,
     <<2904, 2907>>, <<2910, 2910>>, <<2916, 2917>>, <<2936, 2945>>,
     <<2948, 2948>>, <<2955, 2957>>, <<2961, 2961>>, <<2966, 2968>>,
     <<2971, 2971>>, <<2973, 2973>>, <<2976, 2978>>, <<2981, 2983>>,
     <<2987, 2989>>, <<3002, 3005>>, <<3011, 3013>>, <<3017, 3017>>,
     <<3022, 3023>>, <<3025, 3030>>, <<3032, 3045>>, <<3067, 3071>>,
     <<3085, 3085>>, <<3089, 3089>>, <<3113, 3113>>, <<3130, 3131>>,
     <<3141, 3141>>, <<3145, 3145>>, <<3150, 3156>>, <<3159, 3159>>,
     <<3163, 3164>>, <<3166, 3167>>, <<3172, 3173>>, <<3184, 3190>>,
     <<3213, 3213>>, <<3217, 3217>>, <<3241, 3241>>, <<3252, 3252>>,
     <<3258, 3259>>, <<3269, 3269>>, <<3273, 3273>>, <<3278, 3284>>,
     <<3287, 3292>>, <<3295, 3295>>, <<3300, 3301>>, <<3312, 3312>>,
     <<3316, 3327>>, <<3341, 3341>>, <<3345, 3345>>, <<3397, 3397>>,
     <<3401, 3401>>, <<3408, 3411>>, <<3428, 3429>>, <<3456, 3456>>,
     <<3460, 3460>>, <<3479, 3481>>, <<3506, 3506>>, <<3516, 3516>>,
     <<3518, 3519>>, <<3527, 3529>>, <<3531, 3534>>, <<3541, 3541>>,
     <<3543, 3543>>, <<3552, 3557>>, <<3568, 3569>>, <<3573, 3584>>,
     <<3643, 3646>>, <<3676, 3712>>, <<3715, 3715>>, <<3717, 3717>>,
     <<3723, 3723>>, <<3748, 3748>>, <<3750, 3750>>, <<3774, 3775>>,
     <<3781, 3781>>, <<3783, 3783>>, <<3791, 3791>>, <<3802, 3803>>,
     <<3808, 3839>>, <<3912, 3912>>, <<3949, 3952>>, <<3992, 3992>>,
     <<4029, 4029>>, <<4045, 4045>>, <<4059, 4095>>, <<4294, 4294>>,
     <<4296, 4300>>, <<4302, 4303>>, <<4681, 4681>>, <<4686, 4687>>,
     <<4695, 4695>>, <<4697, 4697>>, <<4702, 4703>>, <<4745, 4745>>,
     <<4750, 4751>>, <<4785, 4785>>, <<4790, 4791>>, <<4799, 4799>>,
     <<4801, 4801>>, <<4806, 4807>>, <<4823, 4823>>, <<4881, 4881>>,
     <<4886, 4887>>, <<4955, 4956>>, <<4989, 4991>>, <<5018, 5023>>,
     <<5110, 5111>>, <<5118, 5119>>, <<5789, 5791>>, <<5881, 5887>>,
     <<5910, 5918>>, <<5943, 5951>>, <<5972, 5983>>, <<5997, 5997>>,
     <<6001, 6001>>, <<6004, 6015>>, <<6110, 6111>>, <<6122, 6127>>,
     <<6138, 6143>>, <<6170, 6175>>, <<6265, 6271>>, <<6315, 6319>>,
     <<6390, 6399>>, <<6431, 6431>>, <<6444, 6447>>, <<6460, 6463>>,
     <<6465, 6467>>, <<6510, 6511>>, <<6517, 6527>>, <<6572, 6575>>,
     <<6602, 6607>>, <<6619, 6621>>, <<6684, 6685>>, <<6751, 6751>>,
     <<6781, 6782>>, <<6794, 6799>>, <<6810, 6815>>, <<6830, 6831>>,
     <<6863, 6911>>, <<6989, 6991>>, <<7039, 7039>>, <<7156, 7163>>,
     <<7224, 7226>>, <<7242, 7244>>, <<7305, 7311>>, <<7355, 7356>>,
     <<7368, 7375>>, <<7419, 7423>>, <<7958, 7959>>, <<7966, 7967>>,
     <<8006, 8007>>, <<8014, 8015>>, <<8024, 8024>>, <<8026, 8026>>,
     <<8028, 8028>>, <<8030, 8030>>, <<8062, 8063>>, <<8117, 8117>>,
     <<8133, 8133>>, <<8148, 8149>>, <<8156, 8156>>, <<8176, 8177>>,
     <<8181, 8181>>, <<8191, 8191>>, <<8293, 8293>>, <<8306, 8307>>,
     <<8335, 8335>>, <<8349, 8351>>, <<8385, 8399>>, <<8433, 8447>>,
     <<8588, 8591>>, <<9255, 9279>>, <<9291, 9311>>, <<11124, 11125>>,
     <<11158, 11158>>, <<11508, 11512>>, <<11558, 11558>>, <<11560, 11564>>,
     <<11566, 11567>>, <<11624, 11630>>, <<11633, 11646>>, <<11671, 11679>>,
     <<11687, 11687>>, <<11695, 11695>>, <<11703, 11703>>, <<11711, 11711>>,
     <<11719, 11719>>, <<11727, 11727>>, <<11735, 11735>>, <<11743, 11743>>,
     <<11870, 11903>>, <<11930, 11930>>, <<12020, 12031>>, <<12246, 12271>>,
     <<12284, 12287>>, <<12352, 12352>>, <<12439, 12440>>, <<12544, 12548>>,
     <<12592, 12592>>, <<12687, 12687>>, <<12772, 12783>>, <<12831, 12831>>,
     <<42125, 42127>>, <<42183, 42191>>, <<42540, 42559>>, <<42744, 42751>>,
     <<42955, 42959>>, <<42962, 42962>>, <<42964, 42964>>, <<42970, 42993>>,
     <<43053, 43055>>, <<43066, 43071>>, <<43128, 43135>>, <<43206, 43213>>,
     <<43226, 43231>>, <<43348, 43358>>, <<43389, 43391>>, <<43470, 43470>>,
     <<43482, 43485>>, <<43519, 43519>>, <<43575, 43583>>, <<43598, 43599>>,
     <<43610, 43611>>, <<43715, 43738>>, <<43767, 43776>>, <<43783, 43784>>,
     <<43791, 43792>>, <<43799, 43807>>, <<43815, 43815>>, <<43823, 43823>>,
     <<43884, 43887>>, <<44014, 44015>>, <<44026, 44031>>, <<55204, 55215>>,
     <<55239, 55242>>, <<55292, 55295>>, <<64110, 64111>>, <<64218, 64255>>,
     <<64263, 64274>>, <<64280, 64284>>, <<64311, 64311>>, <<64317, 64317>>,
     <<64319, 64319>>, <<64322, 64322>>, <<64325, 64325>>, <<64451, 64466>>,
     <<64912, 64913>>, <<64968, 64974>>, <<64976, 65007>>, <<65050, 65055>>,
     <<65107, 65107>>, <<65127, 65127>>, <<65132, 65135>>, <<65141, 65141>>,
     <<65277, 65278>>, <<65280, 65280>>, <<65471, 65473>>, <<65480, 65481>>,
     <<65488, 65489>>, <<65496, 65497>>, <<65501, 65503>>, <<65511, 65511>>,
     <<65519, 65528>>, <<65534, 65535>>, <<65548, 65548>>, <<65575, 65575>>,
     <<65595, 65595>>, <<65598, 65598>>, <<65614, 65615>>, <<65630, 65663>>,
     <<65787, 65791>>, <<65795, 65798>>, <<65844, 65846>>, <<65935, 65935>>,
     <<65949, 65951>>, <<65953, 65999>>, <<66046, 66175>>, <<66205, 66207>>,
     <<66257, 66271>>, <<66300, 66303>>, <<66340, 66348>>, <<66379, 66383>>,
     <<66427, 66431>>, <<66462, 66462>>, <<66500, 66503>>, <<66518, 66559>>,
     <<66718, 66719>>, <<66730, 66735>>, <<66772, 66775>>, <<66812, 66815>>,
     <<66856, 66863>>, <<66916, 66926>>, <<66939, 66939>>, <<66955, 66955>>,
     <<66963, 66963>>, <<66966, 66966>>, <<66978, 66978>>, <<66994, 66994>>,
     <<67002, 67002>>, <<67005, 67071>>, <<67383, 67391>>, <<67414, 67423>>,
     <<67432, 67455>>, <<67462, 67462>>, <<67505, 67505>>, <<67515, 67583>>,
     <<67590, 67591>>, <<67593, 67593>>, <<67638, 67638>>, <<67641, 67643>>,
     <<67645, 67646>>, <<67670, 67670>>, <<67743, 67750>>, <<67760, 67807>>,
     <<67827, 67827>>, <<67830, 67834>>, <<67868, 67870>>, <<67898, 67902>>,
     <<67904, 67967>>, <<68024, 68027>>, <<68048, 68049>>, <<68100, 68100>>,
     <<68103, 68107>>, <<68116, 68116>>, <<68120, 68120>>, <<68150, 68151>>,
     <<68155, 68158>>, <<68169, 68175>>, <<68185, 68191>>, <<68256, 68287>>,
     <<68327, 68330>>, <<68343, 68351>>, <<68406, 68408>>, <<68438, 68439>>,
     <<68467, 68471>>, <<68498, 68504>>, <<68509, 68520>>, <<68528, 68607>>,
     <<68681, 68735>>, <<68787, 68799>>, <<68851, 68857>>, <<68904, 68911>>,
     <<68922, 69215>>, <<69247, 69247>>, <<69290, 69290>>, <<69294, 69295>>,
     <<69298, 69372>>, <<69416, 69423>>, <<69466, 69487>>, <<69514, 69551>>,
     <<69580, 69599>>, <<69623, 69631>>, <<69710, 69713>>, <<69750, 69758>>,
     <<69827, 69836>>, <<69838, 69839>>, <<69865, 69871>>, <<69882, 69887>>,
     <<69941, 69941>>, <<69960, 69967>>, <<70007, 70015>>, <<70112, 70112>>,
     <<70133, 70143>>, <<70162, 70162>>, <<70210, 70271>>, <<70279, 70279>>,
     <<70281, 70281>>, <<70286, 70286>>, <<70302, 70302>>, <<70314, 70319>>,
     <<70379, 70383>>, <<70394, 70399>>, <<70404, 70404>>, <<70413, 70414>>,
     <<70417, 70418>>, <<70441, 70441>>, <<70449, 70449>>, <<70452, 70452>>,
     <<70458, 70458>>, <<70469, 70470>>, <<70473, 70474>>, <<70478, 70479>>,
     <<70481, 70486>>, <<70488, 70492>>, <<70500, 70501>>, <<70509, 70511>>,
     <<70517, 70655>>, <<70748, 70748>>, <<70754, 70783>>, <<70856, 70863>>,
     <<70874, 71039>>, <<71094, 71095>>, <<71134, 71167>>, <<71237, 71247>>,
     <<71258, 71263>>, <<71277, 71295>>, <<71354, 71359>>, <<71370, 71423>>,
     <<71451, 71452>>, <<71468, 71471>>, <<71495, 71679>>, <<71740, 71839>>,
     <<71923, 71934>>, <<71943, 71944>>, <<71946, 71947>>, <<71956, 71956>>,
     <<71959, 71959>>, <<71990, 71990>>, <<71993, 71994>>, <<72007, 72015>>,
     <<72026, 72095>>, <<72104, 72105>>, <<72152, 72153>>, <<72165, 72191>>,
     <<72264, 72271>>, <<72355, 72367>>, <<72441, 72447>>, <<72458, 72703>>,
     <<72713, 72713>>, <<72759, 72759>>, <<72774, 72783>>, <<72813, 72815>>,
     <<72848, 72849>>, <<72872, 72872>>, <<72887, 72959>>, <<72967, 72967>>,
     <<72970, 72970>>, <<73015, 73017>>, <<73019, 73019>>, <<73022, 73022>>,
     <<73032, 73039>>, <<73050, 73055>>, <<73062, 73062>>, <<73065, 73065>>,
     <<73103, 73103>>, <<73106, 73106>>, <<73113, 73119>>, <<73130, 73439>>,
     <<73465, 73471>>, <<73489, 73489>>, <<73531, 73533>>, <<73562, 73647>>,
     <<73649, 73663>>, <<73714, 73726>>, <<74650, 74751>>, <<74863, 74863>>,
     <<74869, 74879>>, <<75076, 77711>>, <<77811, 77823>>, <<78934, 82943>>,
     <<83527, 92159>>, <<92729, 92735>>, <<92767, 92767>>, <<92778, 92781>>,
     <<92863, 92863>>, <<92874, 92879>>, <<92910, 92911>>, <<92918, 92927>>,
     <<92998, 93007>>, <<93018, 93018>>, <<93026, 93026>>, <<93048, 93052>>,
     <<93072, 93759>>, <<93851, 93951>>, <<94027, 94030>>, <<94088, 94094>>,
     <<94112, 94175>>, <<94181, 94191>>, <<94194, 94207>>,
     <<100344, 100351>>, <<101590, 101631>>, <<101641, 110575>>,
     <<110580, 110580>>, <<110588, 110588>>, <<110591, 110591>>,
     <<110883, 110897>>, <<110899, 110927>>, <<110931, 110932>>,
     <<110934, 110947>>, <<110952, 110959>>, <<111356, 113663>>,
     <<113771, 113775>>, <<113789, 113791>>, <<113801, 113807>>,
     <<113818, 113819>>, <<113828, 118527>>, <<118574, 118575>>,
     <<118599, 118607>>, <<118724, 118783>>, <<119030, 119039>>,
     <<119079, 119080>>, <<119275, 119295>>, <<119366, 119487>>,
     <<119508, 119519>>, <<119540, 119551>>, <<119639, 119647>>,
     <<119673, 119807>>, <<119893, 119893>>, <<119965, 119965>>,
     <<119968, 119969>>, <<119971, 119972>>, <<119975, 119976>>,
     <<119981, 119981>>, <<119994, 119994>>, <<119996, 119996>>,
     <<120004, 120004>>, <<120070, 120070>>, <<120075, 120076>>,
     <<120085, 120085>>, <<120093, 120093>>, <<120122, 120122>>,
     <<120127, 120127>>, <<120133, 120133>>, <<120135, 120137>>,
     <<120145, 120145>>, <<120486, 120487>>, <<120780, 120781>>,
     <<121484, 121498>>, <<121504, 121504>>, <<121520, 122623>>,
     <<122655, 122660>>, <<122667, 122879>>, <<122887, 122887>>,
     <<122905, 122906>>, <<122914, 122914>>, <<122917, 122917>>,
     <<122923, 122927>>, <<122990, 123022>>, <<123024, 123135>>,
     <<123181, 123183>>, <<123198, 123199>>, <<123210, 123213>>,
     <<123216, 123535>>, <<123567, 123583>>, <<123642, 123646>>,
     <<123648, 124111>>, <<124154, 124895>>, <<124903, 124903>>,
     <<124908, 124908>>, <<124911, 124911>>, <<124927, 124927>>,
     <<125125, 125126>>, <<125143, 125183>>, <<125260, 125263>>,
     <<125274, 125277>>, <<125280, 126064>>, <<126133, 126208>>,
     <<126270, 126463>>, <<126468, 126468>>, <<126496, 126496>>,
     <<126499, 126499>>, <<126501, 126502>>, <<126504, 126504>>,
     <<126515, 126515>>, <<126520, 126520>>, <<126522, 126522>>,
     <<126524, 126529>>, <<126531, 126534>>, <<126536, 126536>>,
     <<126538, 126538>>, <<126540, 126540>>, <<126544, 126544>>,
     <<126547, 126547>>, <<126549, 126550>>, <<126552, 126552>>,
     <<126554, 126554>>, <<126556, 126556>>, <<126558, 126558>>,
     <<126560, 126560>>, <<126563, 126563>>, <<126565, 126566>>,
     <<126571, 126571>>, <<126579, 126579>>, <<126584, 126584>>,
     <<126589, 126589>>, <<126591, 126591>>, <<126602, 126602>>,
     <<126620, 126624>>, <<126628, 126628>>, <<126634, 126634>>,
     <<126652, 126703>>, <<126706, 126975>>, <<127020, 127023>>,
     <<127124, 127135>>, <<127151, 127152>>, <<127168, 127168>>,
     <<127184, 127184>>, <<127222, 127231>>, <<127406, 127461>>,
     <<127491, 127503>>, <<127548, 127551>>, <<127561, 127567>>,
     <<127570, 127583>>, <<127590, 127743>>, <<128728, 128731>>,
     <<128749, 128751>>, <<128765, 128767>>, <<128887, 128890>>,
     <<128986, 128991>>, <<129004, 129007>>, <<129009, 129023>>,
     <<129036, 129039>>, <<129096, 129103>>, <<129114, 129119>>,
     <<129160, 129167>>, <<129198, 129199>>, <<129202, 129279>>,
     <<129620, 129631>>, <<129646, 129647>>, <<129661, 129663>>,
     <<129673, 129679>>, <<129726, 129726>>, <<129734, 129741>>,
     <<129756, 129759>>, <<129769, 129775>>, <<129785, 129791>>,
     <<129939, 129939>>, <<129995, 130031>>, <<130042, 131071>>,
     <<173792, 173823>>, <<177978, 177983>>, <<178206, 178207>>,
     <<183970, 183983>>, <<191457, 194559>>, <<195102, 196607>>,
     <<201547, 201551>>, <<205744, 917504>>, <<917506, 917535>>,
     <<917632, 917759>>, <<918000, 983039>>, <<1048574, 1048575>>,
     <<1114110, 1114111>>
    >>

Cn(r) ==
    /\ r >= CnRanges[1][1]
    /\ \E i \in DOMAIN CnRanges : CnRanges[i][1] <= r /\ r <= CnRanges[i][2]

\* the separators Zs, Zl and Zp
Z(r) ==
    \/ r \in {32, 160, 5760, 8232, 8233, 8239, 8287, 12288}
    \/ r >= 8192 /\ r <= 8202

\* unicode.IsPrint: a letter, mark, number, punctuation or symbol, or the
\* ASCII space; these are the code points in none of the other categories
\* (up to U+00FF the package reads a table of its own: U+0020..U+007E and
\* U+00A1..U+00FF but the soft hyphen U+00AD)
IsPrint(r) ==
    IF r >= 0 /\ r <= 255
    THEN (r >= 32 /\ r <= 126) \/ (r >= 161 /\ r # 173)
    ELSE /\ r > 255 /\ r <= 1114111
         /\ ~(Cc(r) \/ Cf(r) \/ Cs(r) \/ Co(r) \/ Cn(r) \/ Z(r))

\* unicode.IsControl
IsControl(r) == Cc(r)

\* unicode.IsSpace
IsSpace(r) == White_Space(r)

\* the last test of IsForbidden: "not in any category"
Unassigned(r) == ~IsPrint(r) /\ ~IsControl(r) /\ ~IsSpace(r) /\ ~Co(r)

IsLineTerminator(r) == r \in {LF, VT, FF, CR, NEL, LS, PS}

IsWhitespace(r) == IF IsLineTerminator(r) THEN FALSE ELSE White_Space(r)

IsForbidden(r) ==
    IF White_Space(r) THEN FALSE
    ELSE IF Cf(r) THEN FALSE
    ELSE IF Cc(r) THEN TRUE
    ELSE IF Cs(r) THEN TRUE
    ELSE IF Co(r) THEN FALSE
    ELSE IF r >= 64976 /\ r <= 65007 THEN TRUE
    ELSE IF (r % 65536) \in {65534, 65535} THEN TRUE
    ELSE Unassigned(r)

IsReservedPunctuator(r) == r \in {QUOTE, HASH, SEMI, LBRACE, RBRACE}

IsArgumentChar(r) ==
    ~(IsWhitespace(r) \/ IsLineTerminator(r) \/ IsReservedPunctuator(r) \/ IsForbidden(r))

(***************************************************************************)
(* lexer.go.  A Lexer is [input, pos, line, column]; every scan operator   *)
(* returns [tok, err, l]: the token, the error and the lexer afterwards.   *)
(***************************************************************************)
NewLexer(in) == [input |-> in, pos |-> 0, line |-> 1, column |-> 1]

LexResult(tok, e, l) == [tok |-> tok, err |-> e, l |-> l]

peek(l) == IF l.pos >= Len(l.input) THEN 0 ELSE l.input[l.pos + 1]

Lexer_advance(l) ==
    IF l.pos >= Len(l.input) THEN l
    ELSE [l EXCEPT !.pos = l.pos + 1, !.column = l.column + 1]

RECURSIVE skipWhitespace(_)
skipWhitespace(l) ==
    IF l.pos < Len(l.input) /\ IsWhitespace(peek(l))
    THEN skipWhitespace(Lexer_advance(l))
    ELSE l

makeToken(l, typ, value) == Token(typ, value, l.line, l.column)

\* input[start:end] of Go, start and end being 0-based offsets
Slice(s, start, end) == SubSeq(s, start + 1, end)

\* mutant: the LF of a CR LF pair is left for the next token
scanNewline_SplitsCRLF(l) ==
    LET tok == makeToken(l, TokenNewline, <<>>)
        l1 == Lexer_advance(l)
    IN LexResult(tok, nil, [l1 EXCEPT !.line = l1.line + 1, !.column = 1])

scanNewline(l) ==
    LET tok == makeToken(l, TokenNewline, <<>>)
        r == peek(l)
        l1 == Lexer_advance(l)
        l2 == IF r = CR /\ peek(l1) = LF THEN Lexer_advance(l1) ELSE l1
    IN LexResult(tok, nil, [l2 EXCEPT !.line = l2.line + 1, !.column = 1])

RECURSIVE scanCommentLoop(_, _)
\* mutant: a comment takes every character up to the line terminator
scanCommentLoop_AllowsForbidden(l, start) ==
    IF l.pos < Len(l.input)
    THEN IF IsLineTerminator(peek(l))
         THEN LexResult(makeToken(l, TokenComment, Slice(l.input, start, l.pos)), nil, l)
         ELSE scanCommentLoop(Lexer_advance(l), start)
    ELSE LexResult(makeToken(l, TokenComment, Slice(l.input, start, l.pos)), nil, l)

scanCommentLoop(l, start) ==
    IF l.pos < Len(l.input)
    THEN IF IsLineTerminator(peek(l))
         THEN LexResult(makeToken(l, TokenComment, Slice(l.input, start, l.pos)), nil, l)
         ELSE IF IsForbidden(peek(l))
         THEN LexResult(ZeroToken, <<"forbidden character in comment at line %d", l.line>>, l)
         ELSE scanCommentLoop(Lexer_advance(l), start)
    ELSE LexResult(makeToken(l, TokenComment, Slice(l.input, start, l.pos)), nil, l)

scanComment(l) == scanCommentLoop(Lexer_advance(l), l.pos)

\* mutant: the line continuation is taken whatever the buffer holds
simpleLineContinuation_IgnoresBuffer(l, buf) ==
    LET term == peek(l)
        l1 == Lexer_advance(l)
        l2 == IF term = CR /\ peek(l1) = LF THEN Lexer_advance(l1) ELSE l1
        l3 == skipWhitespace([l2 EXCEPT !.line = l2.line + 1, !.column = 1])
    IN LexResult(makeToken(l3, TokenLineContinuation, <<>>), nil, l3)

\* the line-continuation branch of scanSimpleArgument, entered after the
\* backslash with peek(l) a line terminator
simpleLineContinuation(l, buf) ==
    IF Len(buf) > 0
    THEN LexResult(ZeroToken, <<"illegal escape character">>, l)
    ELSE LET term == peek(l)
             l1 == Lexer_advance(l)
             l2 == IF term = CR /\ peek(l1) = LF THEN Lexer_advance(l1) ELSE l1
             l3 == skipWhitespace([l2 EXCEPT !.line = l2.line + 1, !.column = 1])
         IN LexResult(makeToken(l3, TokenLineContinuation, <<>>), nil, l3)

\* mutant: whitespace can be escaped
Escapable_AllowsWhitespace(next) == ~IsLineTerminator(next) /\ ~IsForbidden(next)

\* the escape test shared by the three argument scanners
Escapable(next) == ~IsWhitespace(next) /\ ~IsLineTerminator(next) /\ ~IsForbidden(next)

RECURSIVE scanSimpleLoop(_, _, _)
\* mutant: the character the argument stops at is consumed
scanSimpleLoop_ConsumesStop(l, buf, tok) ==
    IF l.pos < Len(l.input)
    THEN LET r == peek(l) IN
         IF r = BACKSLASH
         THEN LET l1 == Lexer_advance(l)
                  next == peek(l1)
              IN IF IsLineTerminator(next) THEN simpleLineContinuation(l1, buf)
                 ELSE IF Escapable(next)
                 THEN scanSimpleLoop(Lexer_advance(l1), Append(buf, next), tok)
                 ELSE LexResult(ZeroToken,
                        <<"invalid escape sequence at line %d, column %d", l1.line, l1.column>>, l1)
         ELSE IF ~IsArgumentChar(r)
         THEN LexResult([tok EXCEPT !.Value = buf], nil, Lexer_advance(l))
         ELSE scanSimpleLoop(Lexer_advance(l), Append(buf, r), tok)
    ELSE LexResult([tok EXCEPT !.Value = buf], nil, l)

scanSimpleLoop(l, buf, tok) ==
    IF l.pos < Len(l.input)
    THEN LET r == peek(l) IN
         IF r = BACKSLASH
         THEN LET l1 == Lexer_advance(l)
                  next == peek(l1)
              IN IF IsLineTerminator(next) THEN simpleLineContinuation(l1, buf)
                 ELSE IF Escapable(next)
                 THEN scanSimpleLoop(Lexer_advance(l1), Append(buf, next), tok)
                 ELSE LexResult(ZeroToken,
                        <<"invalid escape sequence at line %d, column %d", l1.line, l1.column>>, l1)
         ELSE IF ~IsArgumentChar(r)
         THEN LexResult([tok EXCEPT !.Value = buf], nil, l)
         ELSE scanSimpleLoop(Lexer_advance(l), Append(buf, r), tok)
    ELSE LexResult([tok EXCEPT !.Value = buf], nil, l)

scanSimpleArgument(l) == scanSimpleLoop(l, <<>>, makeToken(l, TokenArgument, <<>>))

RECURSIVE scanSingleLoop(_, _, _)
scanSingleLoop(l, buf, tok) ==
    IF l.pos < Len(l.input)
    THEN LET r == peek(l) IN
         IF r = QUOTE
         THEN LexResult([tok EXCEPT !.Value = buf], nil, Lexer_advance(l))
         ELSE IF r = BACKSLASH
         THEN LET l1 == Lexer_advance(l)
                  next == peek(l1)
              IN IF IsLineTerminator(next)
                 THEN LET l2 == Lexer_advance(l1)
                          l3 == IF next = CR /\ peek(l2) = LF THEN Lexer_advance(l2) ELSE l2
                      IN scanSingleLoop([l3 EXCEPT !.line = l3.line + 1, !.column = 1], buf, tok)
                 ELSE IF Escapable(next)
                 THEN scanSingleLoop(Lexer_advance(l1), Append(buf, next), tok)
                 ELSE LexResult(ZeroToken,
                        <<"invalid escape in quoted string at line %d", l1.line>>, l1)
         ELSE IF IsLineTerminator(r)
         THEN LexResult(ZeroToken,
                <<"unexpected newline in single-quoted string at line %d", l.line>>, l)
         ELSE IF IsForbidden(r)
         THEN LexResult(ZeroToken, <<"forbidden character in string at line %d", l.line>>, l)
         ELSE scanSingleLoop(Lexer_advance(l), Append(buf, r), tok)
    ELSE LexResult(ZeroToken, <<"unterminated quoted string at line %d", l.line>>, l)

scanSingleQuoted(l) == scanSingleLoop(l, <<>>, makeToken(l, TokenArgument, <<>>))

RECURSIVE scanTripleLoop(_, _, _)
\* mutant: an unescaped line terminator fails the scan, as in a
\* single-quoted argument
scanTripleLoop_NewlineFails(l, buf, tok) ==
    IF l.pos < Len(l.input)
    THEN LET r == peek(l) IN
         IF /\ r = QUOTE
            /\ l.pos + 2 < Len(l.input)
            /\ l.input[l.pos + 2] = QUOTE
            /\ l.input[l.pos + 3] = QUOTE
         THEN LexResult([tok EXCEPT !.Value = buf], nil,
                        Lexer_advance(Lexer_advance(Lexer_advance(l))))
         ELSE IF r = BACKSLASH
         THEN LET l1 == Lexer_advance(l)
                  next == peek(l1)
              IN IF Escapable(next)
                 THEN scanTripleLoop(Lexer_advance(l1), Append(buf, next), tok)
                 ELSE LexResult(ZeroToken,
                        <<"invalid escape in triple-quoted string at line %d", l1.line>>, l1)
         ELSE IF IsLineTerminator(r)
         THEN LexResult(ZeroToken,
                <<"unexpected newline in single-quoted string at line %d", l.line>>, l)
         ELSE IF IsForbidden(r)
         THEN LexResult(ZeroToken, <<"forbidden character in string at line %d", l.line>>, l)
         ELSE scanTripleLoop(Lexer_advance(l), Append(buf, r), tok)
    ELSE LexResult(ZeroToken,
           <<"unterminated triple-quoted string at line %d", l.line>>, l)

scanTripleLoop(l, buf, tok) ==
    IF l.pos < Len(l.input)
    THEN LET r == peek(l) IN
         IF /\ r = QUOTE
            /\ l.pos + 2 < Len(l.input)
            /\ l.input[l.pos + 2] = QUOTE
            /\ l.input[l.pos + 3] = QUOTE
         THEN LexResult([tok EXCEPT !.Value = buf], nil,
                        Lexer_advance(Lexer_advance(Lexer_advance(l))))
         ELSE IF r = BACKSLASH
         THEN LET l1 == Lexer_advance(l)
                  next == peek(l1)
              IN IF Escapable(next)
                 THEN scanTripleLoop(Lexer_advance(l1), Append(buf, next), tok)
                 ELSE LexResult(ZeroToken,
                        <<"invalid escape in triple-quoted string at line %d", l1.line>>, l1)
         ELSE IF IsForbidden(r)
         THEN LexResult(ZeroToken, <<"forbidden character in string at line %d", l.line>>, l)
         ELSE scanTripleLoop(Lexer_advance(l), Append(buf, r), tok)
    ELSE LexResult(ZeroToken,
           <<"unterminated triple-quoted string at line %d", l.line>>, l)

\* mutant: the opening quotes are part of the value
scanTripleQuoted_KeepsQuotes(l) ==
    scanTripleLoop(l, <<QUOTE, QUOTE, QUOTE>>, makeToken(l, TokenArgument, <<>>))

scanTripleQuoted(l) == scanTripleLoop(l, <<>>, makeToken(l, TokenArgument, <<>>))

\* mutant: the empty argument "" is returned without being consumed
scanQuotedArgument_EmptyNotConsumed(l) ==
    LET tok == makeToken(l, TokenArgument, <<>>)
        l1 == Lexer_advance(l)
    IN IF peek(l1) = QUOTE
       THEN LET l2 == Lexer_advance(l1) IN
            IF peek(l2) = QUOTE
            THEN scanTripleQuoted(Lexer_advance(l2))
            ELSE LexResult(tok, nil, l)
       ELSE scanSingleQuoted(l1)

scanQuotedArgument(l) ==
    LET tok == makeToken(l, TokenArgument, <<>>)
        l1 == Lexer_advance(l)
    IN IF peek(l1) = QUOTE
       THEN LET l2 == Lexer_advance(l1) IN
            IF peek(l2) = QUOTE
            THEN scanTripleQuoted(Lexer_advance(l2))
            ELSE LexResult(tok, nil, l2)
       ELSE scanSingleQuoted(l1)

\* mutant: a byte-order mark is skipped at the start of every call
skipBOM_OnEveryCall(l) ==
    IF l.pos < Len(l.input) /\ l.input[l.pos + 1] = BOM
    THEN [l EXCEPT !.pos = l.pos + 1]
    ELSE l

\* the first-call check of NextToken: the byte-order mark is one code point
skipBOM(l) ==
    IF l.pos = 0 /\ Len(l.input) >= 1 /\ l.input[1] = BOM
    THEN [l EXCEPT !.pos = 1]
    ELSE l

\* NextToken, after skipWhitespace
tokenAt(l) ==
    IF l.pos >= Len(l.input) THEN LexResult(makeToken(l, TokenEOF, <<>>), nil, l)
    ELSE IF peek(l) = CtrlZ
    THEN IF l.pos + 1 < Len(l.input)
         THEN LexResult(ZeroToken,
                <<"forbidden character at line %d, column %d", l.line, l.column>>, l)
         ELSE LexResult(makeToken(l, TokenEOF, <<>>), nil, l)
    ELSE IF IsForbidden(peek(l))
    THEN LexResult(ZeroToken,
           <<"forbidden character at line %d, column %d", l.line, l.column>>, l)
    ELSE IF IsLineTerminator(peek(l)) THEN scanNewline(l)
    ELSE IF peek(l) = HASH THEN scanComment(l)
    ELSE IF peek(l) = SEMI
    THEN LexResult(makeToken(l, TokenSemicolon, <<SEMI>>), nil, Lexer_advance(l))
    ELSE IF peek(l) = LBRACE
    THEN LexResult(makeToken(l, TokenLeftBrace, <<LBRACE>>), nil, Lexer_advance(l))
    ELSE IF peek(l) = RBRACE
    THEN LexResult(makeToken(l, TokenRightBrace, <<RBRACE>>), nil, Lexer_advance(l))
    ELSE IF peek(l) = QUOTE THEN scanQuotedArgument(l)
    ELSE IF IsArgumentChar(peek(l)) THEN scanSimpleArgument(l)
    ELSE LexResult(ZeroToken,
           <<"unexpected character '%c' at line %d, column %d", peek(l), l.line, l.column>>, l)

NextToken(l0) ==
    IF l0.pos = 0 /\ ~ValidateUTF8(l0.input)
    THEN LexResult(ZeroToken, <<"malformed UTF-8">>, l0)
    ELSE tokenAt(skipWhitespace(skipBOM(l0)))

(***************************************************************************)
(* parser.go.  A Parser is [lexer, current, log].  lexer and current are   *)
(* the fields of the Go struct.  log is an observation history and no      *)
(* program state: Parser.advance records each token it makes current       *)
(* ("tok") and each error NextToken returned to it ("lexerr");             *)
(* parseDirective records its entry ("begin") and its successful return    *)
(* ("end", with whether the directive took a block); type is the type of   *)
(* the current token then.  No operator reads the log.                     *)
(***************************************************************************)
Event(ev, type, block) == [ev |-> ev, type |-> type, block |-> block]

Observe(p, ev, type, block) == [p EXCEPT !.log = Append(p.log, Event(ev, type, block))]

\* what advance, parseArguments (val = args), parseBlock and
\* parseDirectives (val = directives) and parseDirective (val = directive)
\* return, with the parser afterwards
Ret(p, val, e) == [p |-> p, val |-> val, err |-> e]

(***************************************************************************)
(* Each method is an operator of the same name.  Where a method goes on    *)
(* after a call that can fail, the rest of the method is an operator of    *)
(* its own that takes the call's result (a, b, d, r, s below).             *)
(***************************************************************************)
RECURSIVE Parser_advance(_)
RECURSIVE parseArgumentsLoop(_, _)
RECURSIVE skipNewlines(_)
RECURSIVE parseDirectivesLoop(_, _, _)
RECURSIVE parseDirective(_)
RECURSIVE parseBlock(_)

\* mutant: advance hands comment tokens to the parser
advanceOn_KeepsComments(p, r) ==
    IF r.err # nil
    THEN Ret(Observe([p EXCEPT !.lexer = r.l], "lexerr", r.tok.Type, FALSE), nil, r.err)
    ELSE Ret(Observe([p EXCEPT !.lexer = r.l, !.current = r.tok], "tok", r.tok.Type, FALSE),
             nil, nil)

\* advance, one iteration: r is what NextToken returned
advanceOn(p, r) ==
    IF r.err # nil
    THEN Ret(Observe([p EXCEPT !.lexer = r.l], "lexerr", r.tok.Type, FALSE), nil, r.err)
    ELSE IF r.tok.Type = TokenComment THEN Parser_advance([p EXCEPT !.lexer = r.l])
    ELSE Ret(Observe([p EXCEPT !.lexer = r.l, !.current = r.tok], "tok", r.tok.Type, FALSE),
             nil, nil)

Parser_advance(p) == advanceOn(p, NextToken(p.lexer))

\* parseArguments, after the advance of one iteration
argumentsNext(a, args) ==
    IF a.err # nil THEN Ret(a.p, nil, a.err) ELSE parseArgumentsLoop(a.p, args)

\* mutant: the arguments end at a line-continuation token
parseArgumentsLoop_StopsAtContinuation(p, args) ==
    IF p.current.Type = TokenArgument
    THEN argumentsNext(Parser_advance(p), Append(args, p.current.Value))
    ELSE Ret(p, args, nil)

\* mutant: a line-continuation token is appended like an argument
parseArgumentsLoop_AppendsContinuation(p, args) ==
    IF p.current.Type = TokenArgument \/ p.current.Type = TokenLineContinuation
    THEN argumentsNext(Parser_advance(p), Append(args, p.current.Value))
    ELSE Ret(p, args, nil)

parseArgumentsLoop(p, args) ==
    IF p.current.Type = TokenArgument \/ p.current.Type = TokenLineContinuation
    THEN IF p.current.Type = TokenLineContinuation
         THEN argumentsNext(Parser_advance(p), args)
         ELSE argumentsNext(Parser_advance(p), Append(args, p.current.Value))
    ELSE Ret(p, args, nil)

parseArguments(p) == parseArgumentsLoop(p, <<>>)

\* parseDirective's loop "skip newlines to peek ahead"
skipNewlinesNext(a) ==
    IF a.err # nil THEN Ret(a.p, nil, a.err) ELSE skipNewlines(a.p)

skipNewlines(p) ==
    IF p.current.Type = TokenNewline THEN skipNewlinesNext(Parser_advance(p))
    ELSE Ret(p, nil, nil)

\* parseDirectives, after the advance over an empty line
directivesAfterNewline(a, insideBlock, directives) ==
    IF a.err # nil THEN Ret(a.p, nil, a.err)
    ELSE parseDirectivesLoop(a.p, insideBlock, directives)

\* mutant: the new directive is put in front of the list
directivesAfterDirective_Prepends(d, insideBlock, directives) ==
    IF d.err # nil THEN Ret(d.p, nil, d.err)
    ELSE parseDirectivesLoop(d.p, insideBlock, <<d.val>> \o directives)

\* parseDirectives, after parseDirective
directivesAfterDirective(d, insideBlock, directives) ==
    IF d.err # nil THEN Ret(d.p, nil, d.err)
    ELSE parseDirectivesLoop(d.p, insideBlock, Append(directives, d.val))

\* mutant: a ; where a directive must start is skipped like an empty line
parseDirectivesLoop_SkipsSemicolon(p, insideBlock, directives) ==
    IF p.current.Type = TokenNewline \/ p.current.Type = TokenSemicolon
    THEN directivesAfterNewline(Parser_advance(p), insideBlock, directives)
    ELSE IF p.current.Type = TokenEOF THEN Ret(p, directives, nil)
    ELSE IF p.current.Type = TokenRightBrace /\ insideBlock THEN Ret(p, directives, nil)
    ELSE IF p.current.Type = TokenRightBrace
    THEN Ret(p, nil, <<"unexpected '}' without matching '{' at line %d", p.current.Line>>)
    ELSE directivesAfterDirective(parseDirective(p), insideBlock, directives)

\* mutant: a } ends the directive list at the top level too
parseDirectivesLoop_IgnoresInsideBlock(p, insideBlock, directives) ==
    IF p.current.Type = TokenNewline
    THEN directivesAfterNewline(Parser_advance(p), insideBlock, directives)
    ELSE IF p.current.Type = TokenEOF THEN Ret(p, directives, nil)
    ELSE IF p.current.Type = TokenRightBrace THEN Ret(p, directives, nil)
    ELSE directivesAfterDirective(parseDirective(p), insideBlock, directives)

\* mutant: a } with no open block is skipped
parseDirectivesLoop_SkipsStrayBrace(p, insideBlock, directives) ==
    IF p.current.Type = TokenNewline
       \/ (p.current.Type = TokenRightBrace /\ ~insideBlock)
    THEN directivesAfterNewline(Parser_advance(p), insideBlock, directives)
    ELSE IF p.current.Type = TokenEOF THEN Ret(p, directives, nil)
    ELSE IF p.current.Type = TokenRightBrace THEN Ret(p, directives, nil)
    ELSE directivesAfterDirective(parseDirective(p), insideBlock, directives)

\* mutant: an empty line is not skipped where a directive may start
parseDirectivesLoop_NoEmptyLines(p, insideBlock, directives) ==
    IF p.current.Type = TokenEOF THEN Ret(p, directives, nil)
    ELSE IF p.current.Type = TokenRightBrace /\ insideBlock THEN Ret(p, directives, nil)
    ELSE IF p.current.Type = TokenRightBrace
    THEN Ret(p, nil, <<"unexpected '}' without matching '{' at line %d", p.current.Line>>)
    ELSE directivesAfterDirective(parseDirective(p), insideBlock, directives)

parseDirectivesLoop(p, insideBlock, directives) ==
    IF p.current.Type = TokenNewline
    THEN directivesAfterNewline(Parser_advance(p), insideBlock, directives)
    ELSE IF p.current.Type = TokenEOF THEN Ret(p, directives, nil)
    ELSE IF p.current.Type = TokenRightBrace /\ insideBlock THEN Ret(p, directives, nil)
    ELSE IF p.current.Type = TokenRightBrace
    THEN Ret(p, nil, <<"unexpected '}' without matching '{' at line %d", p.current.Line>>)
    ELSE directivesAfterDirective(parseDirective(p), insideBlock, directives)

parseDirectives(p, insideBlock) == parseDirectivesLoop(p, insideBlock, <<>>)

\* parseDirective's "return directive, nil"
endDirective(p, directive, block) ==
    Ret(Observe(p, "end", p.current.Type, block), directive, nil)

\* parseDirective, after the advance over a ;
afterSemicolon(a, directive, block) ==
    IF a.err # nil THEN Ret(a.p, ZeroDirective, a.err)
    ELSE endDirective(a.p, directive, block)

\* mutant: the ; after a block's } is left for the directive list
afterBlock_NoOptionalSemicolon(b, args) ==
    IF b.err # nil THEN Ret(b.p, ZeroDirective, b.err)
    ELSE endDirective(b.p, Directive(args, b.val), TRUE)

\* parseDirective, after parseBlock
afterBlock(b, args) ==
    IF b.err # nil THEN Ret(b.p, ZeroDirective, b.err)
    ELSE IF b.p.current.Type = TokenSemicolon
    THEN afterSemicolon(Parser_advance(b.p), Directive(args, b.val), TRUE)
    ELSE endDirective(b.p, Directive(args, b.val), TRUE)

\* mutant: a newline after the arguments ends the directive, so a { on a
\* later line is not its block
afterNewlines_NewlineEndsDirective(s, args, hasNewlines) ==
    IF s.err # nil THEN Ret(s.p, ZeroDirective, s.err)
    ELSE IF hasNewlines THEN endDirective(s.p, Directive(args, <<>>), FALSE)
    ELSE IF s.p.current.Type = TokenLeftBrace THEN afterBlock(parseBlock(s.p), args)
    ELSE IF s.p.current.Type = TokenSemicolon
    THEN afterSemicolon(Parser_advance(s.p), Directive(args, <<>>), FALSE)
    ELSE IF s.p.current.Type = TokenRightBrace \/ s.p.current.Type = TokenEOF
    THEN endDirective(s.p, Directive(args, <<>>), FALSE)
    ELSE Ret(s.p, ZeroDirective,
             <<"expected newline, semicolon, or block after directive at line %d, got %v",
               s.p.current.Line, s.p.current.Type>>)

\* mutant: a simple directive needs a newline or a ; even before } and
\* end-of-input
afterNewlines_RequiresTerminator(s, args, hasNewlines) ==
    IF s.err # nil THEN Ret(s.p, ZeroDirective, s.err)
    ELSE IF s.p.current.Type = TokenLeftBrace THEN afterBlock(parseBlock(s.p), args)
    ELSE IF hasNewlines THEN endDirective(s.p, Directive(args, <<>>), FALSE)
    ELSE IF s.p.current.Type = TokenSemicolon
    THEN afterSemicolon(Parser_advance(s.p), Directive(args, <<>>), FALSE)
    ELSE Ret(s.p, ZeroDirective,
             <<"expected newline, semicolon, or block after directive at line %d, got %v",
               s.p.current.Line, s.p.current.Type>>)

\* mutant: the } or the end-of-input that ends a directive is advanced over
afterNewlines_AdvancesOverEnd(s, args, hasNewlines) ==
    IF s.err # nil THEN Ret(s.p, ZeroDirective, s.err)
    ELSE IF s.p.current.Type = TokenLeftBrace THEN afterBlock(parseBlock(s.p), args)
    ELSE IF hasNewlines THEN endDirective(s.p, Directive(args, <<>>), FALSE)
    ELSE IF s.p.current.Type = TokenSemicolon
    THEN afterSemicolon(Parser_advance(s.p), Directive(args, <<>>), FALSE)
    ELSE IF s.p.current.Type = TokenRightBrace \/ s.p.current.Type = TokenEOF
    THEN afterSemicolon(Parser_advance(s.p), Directive(args, <<>>), FALSE)
    ELSE Ret(s.p, ZeroDirective,
             <<"expected newline, semicolon, or block after directive at line %d, got %v",
               s.p.current.Line, s.p.current.Type>>)

\* parseDirective, after the newlines that follow the arguments are
\* skipped: the block case and the simple-directive case
afterNewlines(s, args, hasNewlines) ==
    IF s.err # nil THEN Ret(s.p, ZeroDirective, s.err)
    ELSE IF s.p.current.Type = TokenLeftBrace THEN afterBlock(parseBlock(s.p), args)
    ELSE IF hasNewlines THEN endDirective(s.p, Directive(args, <<>>), FALSE)
    ELSE IF s.p.current.Type = TokenSemicolon
    THEN afterSemicolon(Parser_advance(s.p), Directive(args, <<>>), FALSE)
    ELSE IF s.p.current.Type = TokenRightBrace \/ s.p.current.Type = TokenEOF
    THEN endDirective(s.p, Directive(args, <<>>), FALSE)
    ELSE Ret(s.p, ZeroDirective,
             <<"expected newline, semicolon, or block after directive at line %d, got %v",
               s.p.current.Line, s.p.current.Type>>)

\* parseDirective, once the arguments are known to be there
afterArguments(p, args) ==
    afterNewlines(skipNewlines(p), args, p.current.Type = TokenNewline)

\* mutant: the check for zero arguments is missing
withArguments_NoArgumentCheck(r) ==
    IF r.err # nil THEN Ret(r.p, ZeroDirective, r.err)
    ELSE afterArguments(r.p, r.val)

\* parseDirective, after parseArguments
withArguments(r) ==
    IF r.err # nil THEN Ret(r.p, ZeroDirective, r.err)
    ELSE IF Len(r.val) = 0
    THEN Ret(r.p, ZeroDirective,
             <<"directive must have at least one argument at line %d", r.p.current.Line>>)
    ELSE afterArguments(r.p, r.val)

parseDirective(p) ==
    withArguments(parseArguments(Observe(p, "begin", p.current.Type, FALSE)))

\* parseBlock, after the advance over }
blockEnd(c, subdirs) ==
    IF c.err # nil THEN Ret(c.p, nil, c.err) ELSE Ret(c.p, subdirs, nil)

\* mutant: end-of-input closes an open block
blockClose_ClosedByEOF(s) ==
    IF s.err # nil THEN Ret(s.p, nil, s.err)
    ELSE IF s.p.current.Type = TokenEOF THEN Ret(s.p, s.val, nil)
    ELSE IF s.p.current.Type # TokenRightBrace
    THEN Ret(s.p, nil, <<"expected '}' at line %d, got %v",
                         s.p.current.Line, s.p.current.Type>>)
    ELSE blockEnd(Parser_advance(s.p), s.val)

\* parseBlock, after parseDirectives
blockClose(s) ==
    IF s.err # nil THEN Ret(s.p, nil, s.err)
    ELSE IF s.p.current.Type # TokenRightBrace
    THEN Ret(s.p, nil, <<"expected '}' at line %d, got %v",
                         s.p.current.Line, s.p.current.Type>>)
    ELSE blockEnd(Parser_advance(s.p), s.val)

\* mutant: a block must hold at least one directive
blockBody_RequiresDirective(a) ==
    IF a.err # nil THEN Ret(a.p, nil, a.err)
    ELSE blockClose(directivesAfterDirective(parseDirective(a.p), TRUE, <<>>))

\* parseBlock, after the advance over {
blockBody(a) ==
    IF a.err # nil THEN Ret(a.p, nil, a.err) ELSE blockClose(parseDirectives(a.p, TRUE))

parseBlock(p) ==
    IF p.current.Type # TokenLeftBrace
    THEN Ret(p, nil, <<"expected '{' at line %d, got %v", p.current.Line, p.current.Type>>)
    ELSE blockBody(Parser_advance(p))

(***************************************************************************)
(* parser.go: the two exported entry points.  NewParser returns            *)
(* [p, err], p a pointer; Parse returns [p, unit, err], unit a pointer and *)
(* p the parser afterwards.                                                *)
(***************************************************************************)
\* NewParser, after "load first token"
newParserResult(a) ==
    IF a.err # nil THEN [p |-> nil, err |-> a.err] ELSE [p |-> <<a.p>>, err |-> nil]

NewParser(in) ==
    newParserResult(
        Parser_advance([lexer |-> NewLexer(in), current |-> ZeroToken, log |-> <<>>]))

\* mutant: the directives read so far are returned with the error
parseResult_ReturnsPartialTree(r) ==
    [p |-> r.p, unit |-> <<ConfigurationUnit(r.val)>>, err |-> r.err]

\* Parse, after parseDirectives
parseResult(r) ==
    IF r.err # nil THEN [p |-> r.p, unit |-> nil, err |-> r.err]
    ELSE [p |-> r.p, unit |-> <<ConfigurationUnit(r.val)>>, err |-> nil]

Parse(p) == parseResult(parseDirectives(p, FALSE))

(***************************************************************************)
(* types.go: ConfigurationUnit.String.  The strings.Builder is the         *)
(* sequence of code points written so far; each loop is a recursion over   *)
(* its index.                                                              *)
(***************************************************************************)
\* for i := 0; i < indent; i++ { sb.WriteString("    ") }
RECURSIVE writeIndent(_, _)
writeIndent(sb, indent) ==
    IF indent <= 0 THEN sb
    ELSE writeIndent(sb \o <<SPACE, SPACE, SPACE, SPACE>>, indent - 1)

\* mutant: a space is written after every argument
writeArgument_TrailingSpace(sb, args, i) ==
    sb \o <<LANGLE>> \o args[i] \o <<RANGLE>> \o <<SPACE>>

\* the body of the loop over dir.Arguments (i counts from 1)
writeArgument(sb, args, i) ==
    sb \o <<LANGLE>> \o args[i] \o <<RANGLE>>
       \o (IF i - 1 < Len(args) - 1 THEN <<SPACE>> ELSE <<>>)

RECURSIVE writeArguments(_, _, _)
writeArguments(sb, args, i) ==
    IF i > Len(args) THEN sb
    ELSE writeArguments(writeArgument(sb, args, i), args, i + 1)

RECURSIVE printDirectives(_, _, _)
\* the "print subdirectives" part of the loop body
writeSubdirectives(sb, dir, indent) ==
    IF Len(dir.Subdirectives) > 0
    THEN writeIndent(printDirectives(sb \o <<SPACE, LBRACKET, LF>>,
                                     dir.Subdirectives, indent + 1),
                     indent) \o <<RBRACKET>>
    ELSE sb

\* one iteration of the loop over directives
printDirective(sb, dir, indent) ==
    writeSubdirectives(writeArguments(writeIndent(sb, indent), dir.Arguments, 1),
                       dir, indent) \o <<LF>>

printDirectives(sb, directives, indent) ==
    IF Len(directives) = 0 THEN sb
    ELSE printDirectives(printDirective(sb, Head(directives), indent),
                         Tail(directives), indent)

String(cf) == printDirectives(<<>>, cf.Directives, 0)

(***************************************************************************)
(* The lexer tests' collectTokens: NextToken until end-of-input or an      *)
(* error.  TokensOf is its loop, which keeps each token with the scan      *)
(* position after it, and also hands out the tokens read before an error;  *)
(* collectTokens returns no tokens with an error.                          *)
(***************************************************************************)
RECURSIVE tokensFrom(_, _)
tokensNext(r, toks) ==
    IF r.err # nil THEN [toks |-> toks, err |-> r.err, pos |-> r.l.pos]
    ELSE IF r.tok.Type = TokenEOF
    THEN [toks |-> Append(toks, [tok |-> r.tok, end |-> r.l.pos]), err |-> nil,
          pos |-> r.l.pos]
    ELSE tokensFrom(r.l, Append(toks, [tok |-> r.tok, end |-> r.l.pos]))

tokensFrom(l, toks) == tokensNext(NextToken(l), toks)

TokensOf(src) == tokensFrom(NewLexer(src), <<>>)

collectReturn(r) ==
    IF r.err # nil THEN [toks |-> nil, err |-> r.err] ELSE [toks |-> r.toks, err |-> nil]

collectTokens(src) == collectReturn(TokensOf(src))

(***************************************************************************)
(* The callers (parseOK and collectTokens in the tests, main in            *)
(* conformance.go): a source text is read, and then either NewParser is    *)
(* called on it and Parse on the parser it returned, or the text is        *)
(* tokenized.                                                              *)
(***************************************************************************)
\* the source texts of Spec: a letter, a space, a line feed, the
\* punctuators ; { } #, and U+0001, a forbidden control character
Alphabet == {97, 32, LF, SEMI, LBRACE, RBRACE, HASH, 1}

\* the source texts of LexSpec are made of these pieces: a letter, a
\* space, LF, CR, a backslash, one quote, three quotes, { and U+0001
Pieces ==
    {<<97>>, <<32>>, <<LF>>, <<CR>>, <<BACKSLASH>>, <<QUOTE>>,
     <<QUOTE, QUOTE, QUOTE>>, <<LBRACE>>, <<1>>}

\* the source texts of NestSpec: a letter, a space, { and }
NestAlphabet == {97, 32, LBRACE, RBRACE}

\* the source texts of CtlSpec are made of these pieces: a letter, a
\* space, #, a backslash, one quote, three quotes, U+0001, the unassigned
\* U+0530, Control-Z and the byte-order mark
CtlPieces ==
    {<<97>>, <<32>>, <<HASH>>, <<BACKSLASH>>, <<QUOTE>>,
     <<QUOTE, QUOTE, QUOTE>>, <<1>>, <<1328>>, <<CtrlZ>>, <<BOM>>}

\* the source texts of LineSpec are made of these pieces: a letter, LF,
\* CR, { and }, #, a backslash, one quote and three quotes
LinePieces ==
    {<<97>>, <<LF>>, <<CR>>, <<LBRACE>>, <<RBRACE>>, <<HASH>>,
     <<BACKSLASH>>, <<QUOTE>>, <<QUOTE, QUOTE, QUOTE>>}

\* the source texts of BraceSpec: a letter, LF, ; { } # and U+0001
BraceAlphabet == {97, LF, SEMI, LBRACE, RBRACE, HASH, 1}

Init ==
    /\ input = <<>>
    /\ phase = "read"
    /\ parser = nil
    /\ unit = nil
    /\ err = nil
    /\ tokens = nil
    /\ output = nil

\* one more code point of the text is read
ReadChar ==
    /\ phase = "read"
    /\ Len(input) < MaxLen
    /\ \E c \in Alphabet : input' = Append(input, c)
    /\ UNCHANGED <<phase, parser, unit, err, tokens, output>>

\* the least number of pieces a text is made of
RECURSIVE PieceCount(_)
PieceCount(s) ==
    IF Len(s) = 0 THEN 0
    ELSE IF Len(s) >= 3 /\ SubSeq(s, 1, 3) = <<QUOTE, QUOTE, QUOTE>>
    THEN 1 + PieceCount(SubSeq(s, 4, Len(s)))
    ELSE 1 + PieceCount(Tail(s))

\* one more piece of the text is read
ReadPiece ==
    /\ phase = "read"
    /\ PieceCount(input) < MaxPieces
    /\ \E c \in Pieces : input' = input \o c
    /\ UNCHANGED <<phase, parser, unit, err, tokens, output>>

\* one more code point of a text of nested blocks is read
ReadNestChar ==
    /\ phase = "read"
    /\ Len(input) < MaxNestLen
    /\ \E c \in NestAlphabet : input' = Append(input, c)
    /\ UNCHANGED <<phase, parser, unit, err, tokens, output>>

\* one more piece of a text with control characters is read
ReadCtlPiece ==
    /\ phase = "read"
    /\ PieceCount(input) < MaxCtlPieces
    /\ \E c \in CtlPieces : input' = input \o c
    /\ UNCHANGED <<phase, parser, unit, err, tokens, output>>

\* one more piece of a text of lines is read
ReadLinePiece ==
    /\ phase = "read"
    /\ PieceCount(input) < MaxLinePieces
    /\ \E c \in LinePieces : input' = input \o c
    /\ UNCHANGED <<phase, parser, unit, err, tokens, output>>

\* one more code point of a text of directives and blocks is read
ReadBraceChar ==
    /\ phase = "read"
    /\ Len(input) < MaxBraceLen
    /\ \E c \in BraceAlphabet : input' = Append(input, c)
    /\ UNCHANGED <<phase, parser, unit, err, tokens, output>>

DoNewParser ==
    /\ phase = "read"
    /\ \E r \in {NewParser(input)} :
          /\ parser' = r.p
          /\ err' = r.err
          /\ phase' = IF r.err # nil THEN "failed" ELSE "ready"
    /\ UNCHANGED <<input, unit, tokens, output>>

DoParse ==
    /\ phase = "ready"
    /\ \E r \in {Parse(parser[1])} :
          /\ parser' = <<r.p>>
          /\ unit' = r.unit
          /\ err' = r.err
    /\ phase' = "done"
    /\ UNCHANGED <<input, tokens, output>>

\* main in conformance.go renders the tree of a successful parse
DoString ==
    /\ phase = "done"
    /\ unit # nil
    /\ output' = <<String(unit[1])>>
    /\ phase' = "printed"
    /\ UNCHANGED <<input, parser, unit, err, tokens>>

DoCollectTokens ==
    /\ phase = "read"
    /\ \E r \in {collectTokens(input)} :
          /\ tokens' = r.toks
          /\ err' = r.err
    /\ phase' = "lexed"
    /\ UNCHANGED <<input, parser, unit, output>>

Next == ReadChar \/ DoNewParser \/ DoParse

Spec == Init /\ [][Next]_vars

NestNext == ReadNestChar \/ DoNewParser \/ DoParse \/ DoString

NestSpec == Init /\ [][NestNext]_vars

LexNext == ReadPiece \/ DoCollectTokens \/ DoNewParser \/ DoParse

LexSpec == Init /\ [][LexNext]_vars

CtlNext == ReadCtlPiece \/ DoCollectTokens

CtlSpec == Init /\ [][CtlNext]_vars

LineNext == ReadLinePiece \/ DoCollectTokens \/ DoNewParser \/ DoParse

LineSpec == Init /\ [][LineNext]_vars

BraceNext == ReadBraceChar \/ DoNewParser \/ DoParse

BraceSpec == Init /\ [][BraceNext]_vars

(***************************************************************************)
(* Observations the properties below are stated with.                      *)
(***************************************************************************)
\* parseOK of the parser tests without the t.Fatalf: the outcome of
\* NewParser and Parse on a text
ParseText(src) ==
    LET n == NewParser(src) IN
    IF n.err # nil THEN [unit |-> nil, err |-> n.err]
    ELSE LET r == Parse(n.p[1]) IN [unit |-> r.unit, err |-> r.err]

Outcome == [unit |-> unit, err |-> err]

Log == IF parser = nil THEN <<>> ELSE parser[1].log

IsTok(e) == e.ev = "tok"

\* the types of the tokens that became the parser's current token, in order
TokTypes == [i \in DOMAIN SelectSeq(Log, IsTok) |-> SelectSeq(Log, IsTok)[i].type]

Count(seq, n, x) == Cardinality({i \in 1..n : seq[i] = x})

\* open blocks after the first n tokens
Depth(seq, n) == Count(seq, n, TokenLeftBrace) - Count(seq, n, TokenRightBrace)

\* s without the elements at the indices of del
RECURSIVE DropFrom(_, _, _)
DropFrom(s, del, i) ==
    IF i > Len(s) THEN <<>>
    ELSE IF i \in del THEN DropFrom(s, del, i + 1)
    ELSE <<s[i]>> \o DropFrom(s, del, i + 1)

Drop(s, del) == DropFrom(s, del, 1)

\* the first index from i on whose element is not in set (Len(seq) + 1 if none)
RECURSIVE SkipWhile(_, _, _)
SkipWhile(seq, i, set) ==
    IF i <= Len(seq) /\ seq[i] \in set THEN SkipWhile(seq, i + 1, set) ELSE i

NotComment(t) == t.tok.Type # TokenComment

\* the tokens of the source text that are no comments, up to end-of-input
\* or the first tokenizer error, and their types
SrcTokens == SelectSeq(TokensOf(input).toks, NotComment)

SrcTypes == [i \in DOMAIN SrcTokens |-> SrcTokens[i].tok.Type]

InsertAfter(s, i, x) == SubSeq(s, 1, i) \o <<x>> \o SubSeq(s, i + 1, Len(s))

MissingArgumentsMsg == "directive must have at least one argument at line %d"
UnexpectedRightBraceMsg == "unexpected '}' without matching '{' at line %d"
ExpectedRightBraceMsg == "expected '}' at line %d, got %v"
ExpectedLeftBraceMsg == "expected '{' at line %d, got %v"
UnexpectedTokenMsg ==
    "expected newline, semicolon, or block after directive at line %d, got %v"

GrammarMsgs ==
    {MissingArgumentsMsg, UnexpectedRightBraceMsg, ExpectedRightBraceMsg,
     ExpectedLeftBraceMsg, UnexpectedTokenMsg}

(***************************************************************************)
(* C1.  In every tree a successful Parse returns, every Directive at       *)
(* every nesting depth has at least one argument.                          *)
(***************************************************************************)
RECURSIVE AllHaveArguments(_)
AllHaveArguments(ds) ==
    \A i \in DOMAIN ds :
        Len(ds[i].Arguments) >= 1 /\ AllHaveArguments(ds[i].Subdirectives)

C1_EveryDirectiveHasArguments ==
    unit # nil => AllHaveArguments(unit[1].Directives)

\* a tree with a nested directive was returned
C1_Witness ==
    /\ unit # nil
    /\ \E i \in DOMAIN unit[1].Directives :
           Len(unit[1].Directives[i].Subdirectives) >= 1

(***************************************************************************)
(* C2.  Whenever a directive list meets a ; or a { where a directive must  *)
(* start (parseDirective is entered with that token current, so with zero  *)
(* arguments), Parse fails with "directive must have at least one          *)
(* argument", at the line of that token.                                   *)
(***************************************************************************)
StartsAtTerminator(i) ==
    Log[i].ev = "begin" /\ Log[i].type \in {TokenSemicolon, TokenLeftBrace}

\* the cases the claim names, read off the source text: a ; or { as the
\* first token after any empty lines; arguments, newlines, then ; and
\* arguments, a ; and then { (after any empty lines)
NamedMissingArgumentsCase ==
    LET T == SrcTypes
        a == SkipWhile(T, 1, {TokenNewline})
        b == SkipWhile(T, 1, {TokenArgument})
        c == SkipWhile(T, b, {TokenNewline})
        d == SkipWhile(T, b + 1, {TokenNewline})
    IN \/ a <= Len(T) /\ T[a] \in {TokenSemicolon, TokenLeftBrace}
       \/ b > 1 /\ c > b /\ c <= Len(T) /\ T[c] = TokenSemicolon
       \/ b > 1 /\ b <= Len(T) /\ T[b] = TokenSemicolon /\ d <= Len(T) /\ T[d] = TokenLeftBrace

C2_MissingArguments ==
    /\ (phase = "done" /\ \E i \in DOMAIN Log : StartsAtTerminator(i))
        => /\ unit = nil
           /\ err = <<MissingArgumentsMsg, parser[1].current.Line>>
           /\ StartsAtTerminator(Len(Log))
    /\ (phase = "done" /\ NamedMissingArgumentsCase)
        => /\ unit = nil
           /\ err # nil /\ err[1] = MissingArgumentsMsg

\* a { where a directive must start, after a directive that was terminated
C2_Witness ==
    /\ phase = "done"
    /\ err # nil /\ err[1] = MissingArgumentsMsg
    /\ \E i, j \in DOMAIN Log :
           j < i /\ Log[j].ev = "end" /\ Log[i].ev = "begin" /\ Log[i].type = TokenLeftBrace

(***************************************************************************)
(* C3.  A } that becomes the current token while no block is open makes    *)
(* Parse fail with "unexpected '}' without matching '{'" at that token,    *)
(* whatever came before it.                                                *)
(***************************************************************************)
UnmatchedRightBraceAt(k) ==
    TokTypes[k] = TokenRightBrace /\ Depth(TokTypes, k - 1) = 0

C3_UnmatchedRightBrace ==
    (phase = "done" /\ \E k \in DOMAIN TokTypes : UnmatchedRightBraceAt(k))
        => /\ unit = nil
           /\ err = <<UnexpectedRightBraceMsg, parser[1].current.Line>>
           /\ parser[1].current.Type = TokenRightBrace
           /\ UnmatchedRightBraceAt(Len(TokTypes))

\* the unmatched } follows a correctly closed block
C3_Witness ==
    /\ phase = "done"
    /\ err # nil /\ err[1] = UnexpectedRightBraceMsg
    /\ \E k \in DOMAIN TokTypes :
           /\ UnmatchedRightBraceAt(k)
           /\ k > 3
           /\ TokTypes[k - 1] = TokenRightBrace

(***************************************************************************)
(* C4.  If end-of-input becomes the current token while a block is open,   *)
(* Parse fails with "expected '}' ... got end-of-input" (the unmatched     *)
(* brace error), whatever the depth and the block's contents.              *)
(***************************************************************************)
EndOfInputInBlock ==
    /\ Len(TokTypes) > 0
    /\ TokTypes[Len(TokTypes)] = TokenEOF
    /\ Depth(TokTypes, Len(TokTypes)) > 0

C4_UnclosedBlock ==
    (phase = "done" /\ EndOfInputInBlock)
        => /\ unit = nil
           /\ err = <<ExpectedRightBraceMsg, parser[1].current.Line, TokenEOF>>

\* two blocks are open at end-of-input and the inner one holds a directive
C4_Witness ==
    /\ phase = "done"
    /\ EndOfInputInBlock
    /\ Depth(TokTypes, Len(TokTypes)) = 2
    /\ Log[Len(Log)].ev = "end"
    /\ err # nil /\ err[1] = ExpectedRightBraceMsg
(***************************************************************************)
(* C5.  NewParser and Parse end in exactly one of two outcomes: a unit     *)
(* and no error, or no unit and one error.  An error of the tokenizer is   *)
(* the last thing the parser sees and is the error returned; directives    *)
(* built before an error are not returned.                                 *)
(***************************************************************************)
SawTokenizerError == \E i \in DOMAIN Log : Log[i].ev = "lexerr"

C5_TreeOrError ==
    /\ phase = "failed"
         => parser = nil /\ unit = nil /\ err # nil /\ err = TokensOf(input).err
    /\ phase = "ready" => parser # nil /\ unit = nil /\ err = nil
    /\ phase = "done" => (unit # nil /\ err = nil) \/ (unit = nil /\ err # nil)
    /\ (phase = "done" /\ SawTokenizerError)
         => /\ Log[Len(Log)].ev = "lexerr"
            /\ \A i \in 1..(Len(Log) - 1) : Log[i].ev # "lexerr"
            /\ unit = nil
            /\ err = TokensOf(input).err
    /\ (phase = "done" /\ err # nil /\ ~SawTokenizerError) => err[1] \in GrammarMsgs

\* Parse failed on a tokenizer error after a directive had been built
C5_Witness ==
    /\ phase = "done"
    /\ unit = nil /\ err # nil
    /\ SawTokenizerError
    /\ \E i \in DOMAIN Log : Log[i].ev = "end"

(***************************************************************************)
(* C6.  The parser's current token is never a comment, and the outcome     *)
(* (tree or error) for a text equals the outcome for the text with its     *)
(* comment tokens deleted.                                                 *)
(***************************************************************************)
\* the indices of the text that the comment tokens cover
CommentIndices(src) ==
    LET toks == TokensOf(src).toks IN
    UNION {IF toks[i].tok.Type = TokenComment
           THEN (toks[i].end - Len(toks[i].tok.Value) + 1)..toks[i].end
           ELSE {} : i \in DOMAIN toks}

StripComments(src) == Drop(src, CommentIndices(src))

C6_CommentsInvisible ==
    /\ parser # nil
         => /\ parser[1].current.Type # TokenComment
            /\ \A i \in DOMAIN Log : Log[i].type # TokenComment
    /\ phase \in {"failed", "done"} => Outcome = ParseText(StripComments(input))

\* a text with a comment in it parsed to a tree with a directive
C6_Witness ==
    /\ phase = "done"
    /\ unit # nil /\ Len(unit[1].Directives) >= 1
    /\ CommentIndices(input) # {}
(***************************************************************************)
(* C7.  Between two consecutive directives of one list the parser reads    *)
(* only the first one's terminator and empty lines, so a separator, if     *)
(* there is one, is the token just before the second directive's first     *)
(* token.  The claim: in a successful parse that token is always a newline *)
(* or a ;.  It fails: after a block's } the next directive may follow at   *)
(* once ("a{}a").  Amended: that token is a newline, a ;, or the } that    *)
(* closed the first directive's block.                                     *)
(***************************************************************************)
\* the number of tokens read when the log had n entries
TokCount(n) == Cardinality({i \in 1..n : Log[i].ev = "tok"})

\* Log[b] is the entry of a directive that follows a directive of the same
\* list, whose return is Log[e]
Siblings(e, b) ==
    /\ e < b
    /\ Log[e].ev = "end"
    /\ Log[b].ev = "begin"
    /\ \A m \in (e + 1)..(b - 1) : Log[m].ev = "tok"

\* the token just before the first token of the directive entered at Log[b]
TokenBefore(b) == TokTypes[TokCount(b) - 1]

C7_Original ==
    unit # nil =>
        \A e, b \in DOMAIN Log :
            Siblings(e, b) => TokenBefore(b) \in {TokenNewline, TokenSemicolon}

C7_SeparatedOrAfterBlock ==
    unit # nil =>
        \A e, b \in DOMAIN Log :
            Siblings(e, b) =>
                \/ TokenBefore(b) \in {TokenNewline, TokenSemicolon}
                \/ TokenBefore(b) = TokenRightBrace /\ Log[e].block

\* a successful parse in which a directive follows a block's } at once
C7_Witness ==
    /\ unit # nil
    /\ \E e, b \in DOMAIN Log :
           Siblings(e, b) /\ TokenBefore(b) = TokenRightBrace /\ Log[e].block

(***************************************************************************)
(* C8.  Where an argument is followed by one or more newlines and then {,  *)
(* the block belongs to the directive of that argument: the text parses    *)
(* exactly when the text without those newlines parses, and to the same    *)
(* tree.                                                                   *)
(***************************************************************************)
\* the indices of the text a newline token covers (two for CR LF)
NewlineIndices(src, t) ==
    IF t.end >= 2 /\ src[t.end] = LF /\ src[t.end - 1] = CR
    THEN {t.end - 1, t.end}
    ELSE {t.end}

\* toks[i] is an argument, toks[i+1..j] are newlines and toks[j+1] is {
NewlinesBeforeBrace(toks, i, j) ==
    /\ i < j /\ j < Len(toks)
    /\ toks[i].tok.Type = TokenArgument
    /\ \A m \in (i + 1)..j : toks[m].tok.Type = TokenNewline
    /\ toks[j + 1].tok.Type = TokenLeftBrace

WithoutNewlines(src, toks, i, j) ==
    Drop(src, UNION {NewlineIndices(src, toks[m]) : m \in (i + 1)..j})

C8_BlockOnLaterLine ==
    phase = "done" =>
        LET toks == TokensOf(input).toks IN
        \A i, j \in DOMAIN toks :
            NewlinesBeforeBrace(toks, i, j) =>
                LET o == ParseText(WithoutNewlines(input, toks, i, j))
                IN o.unit = unit /\ (o.err = nil <=> err = nil)

\* a text with newlines between the arguments and a non-empty block parsed
C8_Witness ==
    /\ unit # nil
    /\ \E i, j \in DOMAIN TokensOf(input).toks :
           NewlinesBeforeBrace(TokensOf(input).toks, i, j)
    /\ \E d \in DOMAIN unit[1].Directives :
           Len(unit[1].Directives[d].Subdirectives) >= 1

(***************************************************************************)
(* C9.  A ; that is the very next token after a block's } is consumed by   *)
(* the block directive before it returns, and the tree is the tree of the  *)
(* text without that ; : putting a ; right after a } of a text that        *)
(* parses, or taking it away, gives a text that parses to the same tree.   *)
(***************************************************************************)
\* the log index of the token read before Log[m]
PrevTokIndex(m) ==
    IF \E k \in 1..(m - 1) : Log[k].ev = "tok"
    THEN CHOOSE k \in 1..(m - 1) :
            Log[k].ev = "tok" /\ \A n \in (k + 1)..(m - 1) : Log[n].ev # "tok"
    ELSE 0

\* Log[m] is a ; read right after a }
SemicolonAfterBrace(m) ==
    /\ Log[m].ev = "tok" /\ Log[m].type = TokenSemicolon
    /\ PrevTokIndex(m) > 0
    /\ Log[PrevTokIndex(m)].type = TokenRightBrace

C9_OptionalSemicolonAfterBlock ==
    unit # nil =>
        LET toks == TokensOf(input).toks IN
        /\ \A m \in DOMAIN Log :
               SemicolonAfterBrace(m) =>
                   /\ m + 2 <= Len(Log)
                   /\ Log[m + 1].ev = "tok"
                   /\ Log[m + 2].ev = "end" /\ Log[m + 2].block
        /\ \A i \in 1..(Len(toks) - 1) :
               toks[i].tok.Type = TokenRightBrace =>
                   IF toks[i + 1].tok.Type = TokenSemicolon
                   THEN ParseText(Drop(input, {toks[i + 1].end})) = Outcome
                   ELSE ParseText(InsertAfter(input, toks[i].end, SEMI)) = Outcome

\* a block with a directive in it, closed by } and then ;
C9_Witness ==
    /\ unit # nil
    /\ \E m \in DOMAIN Log : SemicolonAfterBrace(m)
    /\ \E d \in DOMAIN unit[1].Directives :
           Len(unit[1].Directives[d].Subdirectives) >= 1

(***************************************************************************)
(* C10.  A directive whose arguments are directly followed by } or by      *)
(* end-of-input is complete, and parseDirective returns with that token    *)
(* still current: end-of-input is never advanced past, and the } is left   *)
(* to the enclosing block (which consumes it) or to the top-level list     *)
(* (which rejects it).                                                     *)
(***************************************************************************)
\* Log[m] is a } or an end-of-input read right after an argument
ArgumentsThenEnd(m) ==
    /\ Log[m].ev = "tok" /\ Log[m].type \in {TokenRightBrace, TokenEOF}
    /\ PrevTokIndex(m) > 0
    /\ Log[PrevTokIndex(m)].type = TokenArgument

ArgumentValues(ts) == [i \in DOMAIN ts |-> ts[i].tok.Value]

C10_CompleteAtBraceOrEOF ==
    phase = "done" =>
        /\ \A m \in DOMAIN Log :
               ArgumentsThenEnd(m) =>
                   /\ m + 1 <= Len(Log)
                   /\ Log[m + 1] = Event("end", Log[m].type, FALSE)
                   /\ Log[m].type = TokenEOF
                        => \A n \in (m + 1)..Len(Log) : Log[n].ev = "end"
                   /\ (Log[m].type = TokenRightBrace /\ Depth(TokTypes, TokCount(m) - 1) > 0)
                        => m + 2 <= Len(Log) /\ Log[m + 2].ev \in {"tok", "lexerr"}
                   /\ (Log[m].type = TokenRightBrace /\ Depth(TokTypes, TokCount(m) - 1) = 0)
                        => m + 1 = Len(Log) /\ err # nil /\ err[1] = UnexpectedRightBraceMsg
        \* arguments and then end-of-input: one directive with those arguments
        /\ LET n == Len(SrcTypes) IN
           (/\ n >= 2
            /\ SrcTypes[n] = TokenEOF
            /\ \A i \in 1..(n - 1) : SrcTypes[i] = TokenArgument)
               => /\ err = nil
                  /\ unit = <<ConfigurationUnit(
                                <<Directive(ArgumentValues(SubSeq(SrcTokens, 1, n - 1)), <<>>)>>)>>

\* a directive ended by the } of its enclosing block, which then closed
C10_Witness ==
    /\ unit # nil
    /\ \E m \in DOMAIN Log : ArgumentsThenEnd(m) /\ Log[m].type = TokenRightBrace
    /\ \E m \in DOMAIN Log : ArgumentsThenEnd(m) /\ Log[m].type = TokenEOF

(***************************************************************************)
(* C11.  A directive followed by an empty block ({, any newlines, })       *)
(* parses to a Directive with its arguments and zero subdirectives: a      *)
(* text that is one such directive parses to that one directive, and       *)
(* giving an empty block to a simple directive of a text that parses       *)
(* leaves the tree as it is.                                               *)
(***************************************************************************)
\* the text is empty lines, arguments, any newlines, {, any newlines, },
\* an optional ; and empty lines; the value is the index after the last
\* argument (0 if the text is not of that shape)
EmptyBlockDirectiveEnd ==
    LET T == SrcTypes
        a == SkipWhile(T, 1, {TokenNewline})
        b == SkipWhile(T, a, {TokenArgument})
        c == SkipWhile(T, b, {TokenNewline})
        d == SkipWhile(T, c + 1, {TokenNewline})
        e == SkipWhile(T, SkipWhile(T, d + 1, {TokenSemicolon}), {TokenNewline})
    IN IF /\ b > a
          /\ c <= Len(T) /\ T[c] = TokenLeftBrace
          /\ d <= Len(T) /\ T[d] = TokenRightBrace
          /\ (d + 2 <= Len(T) => ~(T[d + 1] = TokenSemicolon /\ T[d + 2] = TokenSemicolon))
          /\ e = Len(T) /\ T[e] = TokenEOF
       THEN b
       ELSE 0

\* T[i] is the last argument of a directive that has no block
SimpleDirectiveEndsAt(T, i) ==
    /\ i < Len(T)
    /\ T[i] = TokenArgument
    /\ \/ T[i + 1] \in {TokenSemicolon, TokenRightBrace, TokenEOF}
       \/ /\ T[i + 1] = TokenNewline
          /\ SkipWhile(T, i + 1, {TokenNewline}) <= Len(T)
          /\ T[SkipWhile(T, i + 1, {TokenNewline})] # TokenLeftBrace

InsertSeq(s, i, x) == SubSeq(s, 1, i) \o x \o SubSeq(s, i + 1, Len(s))

EmptyBlocks == {<<LBRACE, RBRACE>>, <<LBRACE, LF, RBRACE>>, <<LBRACE, LF, LF, RBRACE>>}

C11_EmptyBlock ==
    /\ (phase = "done" /\ EmptyBlockDirectiveEnd > 0)
         => LET a == SkipWhile(SrcTypes, 1, {TokenNewline})
                args == ArgumentValues(SubSeq(SrcTokens, a, EmptyBlockDirectiveEnd - 1))
            IN /\ err = nil
               /\ unit = <<ConfigurationUnit(<<Directive(args, <<>>)>>)>>
    /\ unit # nil
         => \A i \in DOMAIN SrcTokens :
                SimpleDirectiveEndsAt(SrcTypes, i) =>
                    \A b \in EmptyBlocks :
                        ParseText(InsertSeq(input, SrcTokens[i].end, b)) = Outcome

\* a directive with an empty block that has a newline in it was parsed
C11_Witness ==
    /\ phase = "done"
    /\ unit # nil
    /\ EmptyBlockDirectiveEnd > 0
    /\ \E k \in 2..Len(SrcTypes) :
           SrcTypes[k] = TokenNewline /\ SrcTypes[k - 1] = TokenLeftBrace

(***************************************************************************)
(* C12.  A text whose tokens are only newlines and comments (the empty     *)
(* text and a text of whitespace too) parses to a unit with no directive;  *)
(* and a blank line more or less (a newline token at the start of the      *)
(* text or next to another newline token) leaves the tree of a text that   *)
(* parses as it is.                                                        *)
(***************************************************************************)
OnlyNewlinesAndComments ==
    LET r == TokensOf(input) IN
    /\ r.err = nil
    /\ \A i \in 1..(Len(r.toks) - 1) : r.toks[i].tok.Type \in {TokenNewline, TokenComment}

\* toks[i] is a newline token that ends a blank line: the text starts
\* with it, or it comes right after another newline token
BlankLine(toks, i) ==
    /\ toks[i].tok.Type = TokenNewline
    /\ i = 1 \/ toks[i - 1].tok.Type = TokenNewline

C12_BlankLinesIgnored ==
    /\ (phase \in {"failed", "done"} /\ OnlyNewlinesAndComments)
         => phase = "done" /\ err = nil /\ unit = <<ConfigurationUnit(<<>>)>>
    /\ unit # nil
         => LET toks == TokensOf(input).toks IN
            /\ ParseText(<<LF>> \o input) = Outcome
            /\ \A i \in DOMAIN toks :
                   /\ toks[i].tok.Type = TokenNewline
                        => ParseText(InsertAfter(input, toks[i].end, LF)) = Outcome
                   /\ BlankLine(toks, i)
                        => ParseText(Drop(input, {toks[i].end})) = Outcome

\* a text with a blank line between two directives was parsed
C12_Witness ==
    /\ unit # nil
    /\ Len(unit[1].Directives) = 2
    /\ \E i \in DOMAIN TokensOf(input).toks : i > 1 /\ BlankLine(TokensOf(input).toks, i)

(***************************************************************************)
(* C13.  The tree mirrors the source: read in pre-order, with each         *)
(* directive's depth, the tree of a successful parse is the list of the    *)
(* runs of argument tokens of the text, in source order, each run at the   *)
(* depth that is the number of blocks open where it stands.                *)
(***************************************************************************)
\* the directives of a list and below, in pre-order, each with its depth
RECURSIVE Flatten(_, _)
Flatten(ds, depth) ==
    IF Len(ds) = 0 THEN <<>>
    ELSE <<[depth |-> depth, args |-> ds[1].Arguments]>>
         \o Flatten(ds[1].Subdirectives, depth + 1)
         \o Flatten(Tail(ds), depth)

RunAt(cur, depth) == IF Len(cur) = 0 THEN <<>> ELSE <<[depth |-> depth, args |-> cur]>>

\* the runs of argument tokens from toks[i] on; cur is the run so far
RECURSIVE ArgumentRuns(_, _, _, _)
ArgumentRuns(toks, i, cur, depth) ==
    IF i > Len(toks) THEN RunAt(cur, depth)
    ELSE IF toks[i].tok.Type = TokenArgument
    THEN ArgumentRuns(toks, i + 1, Append(cur, toks[i].tok.Value), depth)
    ELSE RunAt(cur, depth)
         \o ArgumentRuns(toks, i + 1, <<>>,
                         IF toks[i].tok.Type = TokenLeftBrace THEN depth + 1
                         ELSE IF toks[i].tok.Type = TokenRightBrace THEN depth - 1
                         ELSE depth)

C13_TreeMirrorsSource ==
    unit # nil =>
        Flatten(unit[1].Directives, 0) = ArgumentRuns(SrcTokens, 1, <<>>, 0)

\* a directive two blocks deep, followed by a directive of the outer block
C13_Witness ==
    /\ unit # nil
    /\ \E i \in DOMAIN unit[1].Directives :
           LET subs == unit[1].Directives[i].Subdirectives IN
           /\ Len(subs) = 2
           /\ Len(subs[1].Subdirectives) = 1

(***************************************************************************)
(* C14.  A line-continuation token adds nothing to the tree: the tree of   *)
(* a successful parse is the tree read off the token sequence with its     *)
(* line-continuation tokens taken out, so the arguments of a directive     *)
(* are the values of its argument tokens and the arguments on both sides   *)
(* of a continuation are in one directive.                                 *)
(***************************************************************************)
NotLineContinuation(t) == t.tok.Type # TokenLineContinuation

\* toks[i] is a line-continuation token between two argument tokens
ContinuationBetweenArguments(toks, i) ==
    /\ 1 < i /\ i < Len(toks)
    /\ toks[i - 1].tok.Type = TokenArgument
    /\ toks[i].tok.Type = TokenLineContinuation
    /\ toks[i + 1].tok.Type = TokenArgument

C14_ContinuationNotInTree ==
    unit # nil =>
        Flatten(unit[1].Directives, 0)
            = ArgumentRuns(SelectSeq(SrcTokens, NotLineContinuation), 1, <<>>, 0)

\* a directive with an argument on each side of a line continuation
C14_Witness ==
    /\ unit # nil
    /\ Len(unit[1].Directives) = 1
    /\ Len(unit[1].Directives[1].Arguments) = 2
    /\ \E i \in DOMAIN SrcTokens : ContinuationBetweenArguments(SrcTokens, i)

(***************************************************************************)
(* C15.  Where a token starts with a backslash and a line terminator, the  *)
(* token is a line continuation; where an unquoted argument has taken at   *)
(* least one character and then a backslash and a line terminator come,    *)
(* the scan fails with "illegal escape character"; and a line-continuation *)
(* token comes from nowhere else.                                          *)
(***************************************************************************)
\* the whitespace characters of a text
WhitespaceIn(src) == {src[j] : j \in {n \in DOMAIN src : IsWhitespace(src[n])}}

\* the index of the first character from i on that an unquoted argument
\* does not take: argument characters and escaped characters are taken
RECURSIVE UnquotedEnd(_, _)
UnquotedEnd(src, i) ==
    IF i > Len(src) THEN i
    ELSE IF src[i] = BACKSLASH
    THEN IF i + 1 <= Len(src) /\ Escapable(src[i + 1]) THEN UnquotedEnd(src, i + 2) ELSE i
    ELSE IF IsArgumentChar(src[i]) THEN UnquotedEnd(src, i + 1)
    ELSE i

\* the index where the token after the first k tokens starts
TokenStart(src, toks, k) ==
    SkipWhile(src, (IF k = 0 THEN 0 ELSE toks[k].end) + 1, WhitespaceIn(src))

\* a backslash at index e of src with a line terminator after it
BackslashTerminatorAt(src, e) ==
    e + 1 <= Len(src) /\ src[e] = BACKSLASH /\ IsLineTerminator(src[e + 1])

\* the scan position after the line continuation that starts at index e
ContinuationEnd(src, e) ==
    SkipWhile(src, IF src[e + 1] = CR /\ e + 2 <= Len(src) /\ src[e + 2] = LF
                   THEN e + 3 ELSE e + 2,
              WhitespaceIn(src)) - 1

C15_ContinuationOnlyOnEmptyBuffer ==
    phase = "lexed" =>
        LET toks == TokensOf(input).toks IN
        \A k \in 0..Len(toks) :
            (k = 0 \/ toks[k].tok.Type # TokenEOF) =>
                LET q == TokenStart(input, toks, k)
                    e == UnquotedEnd(input, q)
                IN /\ (BackslashTerminatorAt(input, e) /\ e = q)
                        => /\ k + 1 <= Len(toks)
                           /\ toks[k + 1].tok.Type = TokenLineContinuation
                           /\ toks[k + 1].tok.Value = <<>>
                           /\ toks[k + 1].end = ContinuationEnd(input, e)
                   /\ (BackslashTerminatorAt(input, e) /\ e > q)
                        => /\ Len(toks) = k
                           /\ tokens = nil
                           /\ err = <<"illegal escape character">>
                   /\ (k + 1 <= Len(toks) /\ toks[k + 1].tok.Type = TokenLineContinuation)
                        => BackslashTerminatorAt(input, q)

\* a line continuation was read, and later an argument met a backslash
\* and a line terminator
C15_Witness ==
    /\ phase = "lexed"
    /\ err = <<"illegal escape character">>
    /\ \E k \in DOMAIN TokensOf(input).toks :
           TokensOf(input).toks[k].tok.Type = TokenLineContinuation

(***************************************************************************)
(* The rules for a quoted argument, as a scan of its own over the text     *)
(* from the index after the opening quote(s).  The result names how the    *)
(* argument ends (kind), its value, the index after it (next), and how     *)
(* many line continuations (conts), escaped characters (escs) and          *)
(* unescaped line terminators (terms) it holds.                            *)
(*   "closed"        the closing quote(s) were found                       *)
(*   "unterminated"  the text ended first                                  *)
(*   "escape"        a backslash before whitespace, a forbidden character  *)
(*                   or the end of the text                                *)
(*   "newline"       an unescaped line terminator, single-quoted only      *)
(*   "forbidden"     a forbidden character                                 *)
(***************************************************************************)
QuotedEnd(kind, value, next, n) ==
    [kind |-> kind, value |-> value, next |-> next,
     conts |-> n.conts, escs |-> n.escs, terms |-> n.terms]

RECURSIVE QuotedRule(_, _, _, _, _)
QuotedRule(src, i, triple, value, n) ==
    IF i > Len(src) THEN QuotedEnd("unterminated", value, i, n)
    ELSE IF ~triple /\ src[i] = QUOTE THEN QuotedEnd("closed", value, i + 1, n)
    ELSE IF triple /\ i + 2 <= Len(src) /\ SubSeq(src, i, i + 2) = <<QUOTE, QUOTE, QUOTE>>
    THEN QuotedEnd("closed", value, i + 3, n)
    ELSE IF src[i] = BACKSLASH
    THEN IF i = Len(src) THEN QuotedEnd("escape", value, i, n)
         ELSE IF IsLineTerminator(src[i + 1])
         THEN QuotedRule(src,
                         IF src[i + 1] = CR /\ i + 2 <= Len(src) /\ src[i + 2] = LF
                         THEN i + 3 ELSE i + 2,
                         triple, value, [n EXCEPT !.conts = n.conts + 1])
         ELSE IF IsWhitespace(src[i + 1]) \/ IsForbidden(src[i + 1])
         THEN QuotedEnd("escape", value, i, n)
         ELSE QuotedRule(src, i + 2, triple, Append(value, src[i + 1]),
                         [n EXCEPT !.escs = n.escs + 1])
    ELSE IF IsLineTerminator(src[i])
    THEN IF triple
         THEN QuotedRule(src, i + 1, triple, Append(value, src[i]),
                         [n EXCEPT !.terms = n.terms + 1])
         ELSE QuotedEnd("newline", value, i, n)
    ELSE IF IsForbidden(src[i]) THEN QuotedEnd("forbidden", value, i, n)
    ELSE QuotedRule(src, i + 1, triple, Append(value, src[i]), n)

NoneYet == [conts |-> 0, escs |-> 0, terms |-> 0]

\* the quoted argument that starts at index q of src (src[q] is a quote)
QuotedArgument(src, q) ==
    IF q + 2 <= Len(src) /\ SubSeq(src, q, q + 2) = <<QUOTE, QUOTE, QUOTE>>
    THEN [QuotedRule(src, q + 3, TRUE, <<>>, NoneYet) EXCEPT !.kind = <<"triple", @>>]
    ELSE IF q + 1 <= Len(src) /\ src[q + 1] = QUOTE
    THEN [QuotedEnd("closed", <<>>, q + 2, NoneYet) EXCEPT !.kind = <<"single", @>>]
    ELSE [QuotedRule(src, q + 1, FALSE, <<>>, NoneYet) EXCEPT !.kind = <<"single", @>>]

UnterminatedMsgs ==
    {"unterminated quoted string at line %d", "unterminated triple-quoted string at line %d"}

InvalidEscapeMsgs ==
    {"invalid escape sequence at line %d, column %d",
     "invalid escape in quoted string at line %d",
     "invalid escape in triple-quoted string at line %d"}

\* what the lexer made of the token after the first k tokens of the text is
\* what the rules make of it
AgreesWithRule(r, k, a) ==
    IF a.kind[2] = "closed"
    THEN /\ k + 1 <= Len(r.toks)
         /\ r.toks[k + 1].tok.Type = TokenArgument
         /\ r.toks[k + 1].tok.Value = a.value
         /\ r.toks[k + 1].end = a.next - 1
    ELSE /\ Len(r.toks) = k
         /\ r.err # nil
         /\ a.kind[2] = "unterminated" => r.err[1] \in UnterminatedMsgs
         /\ a.kind[2] = "escape" => r.err[1] \in InvalidEscapeMsgs
         /\ a.kind[2] = "newline"
              => r.err[1] = "unexpected newline in single-quoted string at line %d"
         /\ a.kind[2] = "forbidden" => r.err[1] = "forbidden character in string at line %d"

\* the token after the first k tokens of the text starts with a quote
QuotedTokenAfter(r, k) ==
    /\ k = 0 \/ r.toks[k].tok.Type # TokenEOF
    /\ TokenStart(input, r.toks, k) <= Len(input)
    /\ input[TokenStart(input, r.toks, k)] = QUOTE

\* every quoted argument of the text that Covers holds of was scanned as
\* the rules say
QuotedAsRuled(Covers(_)) ==
    phase = "lexed" =>
        LET r == TokensOf(input) IN
        \A k \in 0..Len(r.toks) :
            QuotedTokenAfter(r, k) =>
                LET a == QuotedArgument(input, TokenStart(input, r.toks, k))
                IN Covers(a) => AgreesWithRule(r, k, a)

\* some quoted argument of the text that Covers holds of was scanned
QuotedCase(Covers(_)) ==
    /\ phase = "lexed"
    /\ \E k \in 0..Len(TokensOf(input).toks) :
           /\ QuotedTokenAfter(TokensOf(input), k)
           /\ Covers(QuotedArgument(input, TokenStart(input, TokensOf(input).toks, k)))

(***************************************************************************)
(* C16.  In a single-quoted and in a triple-quoted argument alike, a       *)
(* backslash right before a line terminator is a line continuation: the    *)
(* terminator (both characters of a CR LF) is consumed, nothing is added   *)
(* to the value and the scan of the argument goes on.  It holds of         *)
(* single-quoted arguments; scanTripleQuoted has no such branch and fails  *)
(* with "invalid escape in triple-quoted string".                          *)
(***************************************************************************)
HasContinuation(a) == a.conts > 0

SingleWithContinuation(a) == a.kind[1] = "single" /\ a.conts > 0

C16_QuotedContinuation == QuotedAsRuled(HasContinuation)

\* the single-quoted half of the claim
C16_SingleQuotedContinuation == QuotedAsRuled(SingleWithContinuation)

\* a single-quoted argument with a continuation in it was closed
SingleContinuationClosed(a) ==
    a.kind = <<"single", "closed">> /\ a.conts > 0 /\ Len(a.value) > 0

C16_SingleWitness == QuotedCase(SingleContinuationClosed)

(***************************************************************************)
(* C17.  Where the text ends after an opening " or """ and before the      *)
(* closing quote(s), the scan fails with "unterminated quoted string" or   *)
(* "unterminated triple-quoted string".  (A backslash that is the last     *)
(* character is an invalid escape, C19.)  It fails where a triple-quoted   *)
(* argument holds a backslash before a line terminator, which the code     *)
(* rejects (C16) before it reaches the end of the text.                    *)
(***************************************************************************)
Unterminated(a) == a.kind[2] = "unterminated"

C17_UnterminatedString == QuotedAsRuled(Unterminated)

\* the claim for the arguments that C16 does not touch
UnterminatedWithoutTripleContinuation(a) ==
    a.kind[2] = "unterminated" /\ (a.kind[1] = "single" \/ a.conts = 0)

C17_UnterminatedElsewhere == QuotedAsRuled(UnterminatedWithoutTripleContinuation)

UnterminatedTriple(a) == a.kind = <<"triple", "unterminated">> /\ Len(a.value) >= 2

C17_ElsewhereWitness == QuotedCase(UnterminatedTriple)

(***************************************************************************)
(* C18.  An unescaped line terminator in a triple-quoted argument goes     *)
(* into the value as it is (CR LF stays two characters) and the scan goes  *)
(* on to the closing quotes; in a single-quoted argument it fails the      *)
(* scan with "unexpected newline in single-quoted string".  (Arguments     *)
(* that also hold a backslash before a line terminator are the case of     *)
(* C16.)                                                                   *)
(***************************************************************************)
UnescapedTerminator(a) ==
    \/ a.kind[1] = "triple" /\ a.terms > 0 /\ a.conts = 0
    \/ a.kind = <<"single", "newline">>

C18_TerminatorInQuoted == QuotedAsRuled(UnescapedTerminator)

TripleWithCRLF(a) == a.kind = <<"triple", "closed">> /\ a.value = <<CR, LF>>

\* a triple-quoted argument with CR LF in it was closed
C18_Witness == QuotedCase(TripleWithCRLF)

(***************************************************************************)
(* The rules for an unquoted argument, as a scan of its own over the text  *)
(* from the index where the token starts.                                  *)
(*   "closed"        a character that is no argument character, or the end *)
(*                   of the text, was met; next is its index               *)
(*   "escape"        a backslash before whitespace, a forbidden character  *)
(*                   or the end of the text                                *)
(*   "continuation"  a backslash before a line terminator, nothing taken   *)
(*   "illegal"       a backslash before a line terminator, something taken *)
(***************************************************************************)
RECURSIVE UnquotedRule(_, _, _, _)
UnquotedRule(src, i, value, n) ==
    IF i > Len(src) THEN QuotedEnd("closed", value, i, n)
    ELSE IF src[i] = BACKSLASH
    THEN IF i = Len(src) THEN QuotedEnd("escape", value, i, n)
         ELSE IF IsLineTerminator(src[i + 1])
         THEN QuotedEnd(IF Len(value) = 0 THEN "continuation" ELSE "illegal", value, i, n)
         ELSE IF IsWhitespace(src[i + 1]) \/ IsForbidden(src[i + 1])
         THEN QuotedEnd("escape", value, i, n)
         ELSE UnquotedRule(src, i + 2, Append(value, src[i + 1]),
                           [n EXCEPT !.escs = n.escs + 1])
    ELSE IF IsWhitespace(src[i]) \/ IsLineTerminator(src[i])
            \/ IsReservedPunctuator(src[i]) \/ IsForbidden(src[i])
    THEN QuotedEnd("closed", value, i, n)
    ELSE UnquotedRule(src, i + 1, Append(value, src[i]), n)

UnquotedArgument(src, q) == UnquotedRule(src, q, <<>>, NoneYet)

\* the token after the first k tokens of the text starts an unquoted
\* argument: with a backslash or an argument character
UnquotedTokenAfter(r, k) ==
    /\ k = 0 \/ r.toks[k].tok.Type # TokenEOF
    /\ TokenStart(input, r.toks, k) <= Len(input)
    /\ LET c == input[TokenStart(input, r.toks, k)] IN
       ~(IsWhitespace(c) \/ IsLineTerminator(c) \/ IsReservedPunctuator(c) \/ IsForbidden(c))

AgreesWithUnquotedRule(r, k, u) ==
    IF u.kind = "closed"
    THEN /\ k + 1 <= Len(r.toks)
         /\ r.toks[k + 1].tok.Type = TokenArgument
         /\ r.toks[k + 1].tok.Value = u.value
         /\ r.toks[k + 1].end = u.next - 1
    ELSE IF u.kind = "continuation"
    THEN /\ k + 1 <= Len(r.toks)
         /\ r.toks[k + 1].tok.Type = TokenLineContinuation
    ELSE /\ Len(r.toks) = k
         /\ r.err # nil
         /\ u.kind = "escape" => r.err[1] \in InvalidEscapeMsgs
         /\ u.kind = "illegal" => r.err = <<"illegal escape character">>

UnquotedAsRuled(Covers(_)) ==
    phase = "lexed" =>
        LET r == TokensOf(input) IN
        \A k \in 0..Len(r.toks) :
            UnquotedTokenAfter(r, k) =>
                LET u == UnquotedArgument(input, TokenStart(input, r.toks, k))
                IN Covers(u) => AgreesWithUnquotedRule(r, k, u)

UnquotedCase(Covers(_)) ==
    /\ phase = "lexed"
    /\ \E k \in 0..Len(TokensOf(input).toks) :
           /\ UnquotedTokenAfter(TokensOf(input), k)
           /\ Covers(UnquotedArgument(input, TokenStart(input, TokensOf(input).toks, k)))

(***************************************************************************)
(* C19.  In unquoted and in quoted arguments a backslash before a          *)
(* character that is no whitespace, no line terminator and not forbidden   *)
(* puts exactly that character into the value, and a backslash before      *)
(* whitespace, a forbidden character or the end of the text fails the      *)
(* scan with an invalid-escape error.  (Triple-quoted arguments that also  *)
(* hold a backslash before a line terminator are the case of C16.)         *)
(***************************************************************************)
UnquotedEscape(u) == u.escs > 0 \/ u.kind = "escape"

QuotedEscape(a) ==
    /\ a.escs > 0 \/ a.kind[2] = "escape"
    /\ a.kind[1] = "single" \/ a.conts = 0

C19_Escapes == UnquotedAsRuled(UnquotedEscape) /\ QuotedAsRuled(QuotedEscape)

EscapedBackslashAndQuote(u) == u.kind = "closed" /\ u.value = <<BACKSLASH, QUOTE>>

\* an unquoted argument made of an escaped backslash and an escaped quote
C19_Witness == UnquotedCase(EscapedBackslashAndQuote)

(***************************************************************************)
(* C20.  The scan of an unquoted argument stops at the first character     *)
(* that is no argument character; the token holds the characters taken so  *)
(* far and the scan position stays before the stopping character, which    *)
(* starts the next token.  The claim counts a backslash before a character *)
(* that cannot be escaped among the stopping characters.  It is not one:   *)
(* there the scan fails with "invalid escape sequence" and no token is     *)
(* returned.  Amended: a backslash never stops the scan.                   *)
(***************************************************************************)
StoppedArgument(r, k, u) ==
    /\ k + 1 <= Len(r.toks)
    /\ r.toks[k + 1].tok.Type = TokenArgument
    /\ r.toks[k + 1].tok.Value = u.value
    /\ r.toks[k + 1].end = u.next - 1

C20_Original ==
    phase = "lexed" =>
        LET r == TokensOf(input) IN
        \A k \in 0..Len(r.toks) :
            UnquotedTokenAfter(r, k) =>
                LET u == UnquotedArgument(input, TokenStart(input, r.toks, k))
                IN (u.kind = "closed"
                        \/ (u.kind = "escape" /\ Len(u.value) > 0 /\ u.next < Len(input)))
                       => StoppedArgument(r, k, u)

C20_StopsAtNonArgumentChar ==
    phase = "lexed" =>
        LET r == TokensOf(input) IN
        \A k \in 0..Len(r.toks) :
            UnquotedTokenAfter(r, k) =>
                LET u == UnquotedArgument(input, TokenStart(input, r.toks, k))
                IN /\ u.kind = "closed" => StoppedArgument(r, k, u)
                   /\ u.kind = "escape"
                        => /\ Len(r.toks) = k
                           /\ tokens = nil
                           /\ err # nil
                           /\ err[1] = "invalid escape sequence at line %d, column %d"

StoppedAtBrace(u) ==
    u.kind = "closed" /\ Len(u.value) = 2 /\ u.next <= Len(input) /\ input[u.next] = LBRACE

\* an unquoted argument stopped at a {, which became the next token
C20_Witness ==
    /\ UnquotedCase(StoppedAtBrace)
    /\ tokens # nil
    /\ \E k \in DOMAIN tokens : tokens[k].tok.Type = TokenLeftBrace

(***************************************************************************)
(* C21.  The tokenizer never gets past a forbidden code point: the         *)
(* characters it consumed hold none, it reports end-of-input only at the   *)
(* end of the text (or before a closing Control-Z), and when it fails      *)
(* standing at a forbidden code point the error is a forbidden-character   *)
(* error (at a token start, in a comment, in a quoted argument) or, when   *)
(* the code point is the target of a backslash, an invalid-escape error.   *)
(* As claimed, the error is a forbidden-character error in every case.     *)
(***************************************************************************)
ForbiddenMsgs ==
    {"forbidden character at line %d, column %d",
     "forbidden character in comment at line %d",
     "forbidden character in string at line %d"}

\* the scan of text src with result r stopped in front of a forbidden code point
StoppedAtForbidden(src, r) ==
    r.err # nil /\ r.pos < Len(src) /\ IsForbidden(src[r.pos + 1])

\* nothing forbidden was consumed, and end-of-input is at the end
NothingForbiddenConsumed(src, r) ==
    /\ \A j \in 1..r.pos : ~IsForbidden(src[j])
    /\ r.err = nil
        => \/ r.pos = Len(src)
           \/ r.pos = Len(src) - 1 /\ src[Len(src)] = CtrlZ

C21_ForbiddenAnywhere ==
    LET r == TokensOf(input) IN
    /\ NothingForbiddenConsumed(input, r)
    /\ StoppedAtForbidden(input, r) => r.err[1] \in ForbiddenMsgs
    /\ phase = "lexed" => err = r.err

C21_ForbiddenOrInvalidEscape ==
    LET r == TokensOf(input) IN
    /\ NothingForbiddenConsumed(input, r)
    /\ StoppedAtForbidden(input, r)
        => \/ r.err[1] \in ForbiddenMsgs
           \/ /\ r.err[1] \in InvalidEscapeMsgs
              /\ r.pos >= 1
              /\ input[r.pos] = BACKSLASH
    /\ phase = "lexed" => err = r.err

\* the tokenizer failed at a forbidden code point in a triple-quoted
\* argument
C21_Witness ==
    /\ phase = "lexed"
    /\ StoppedAtForbidden(input, TokensOf(input))
    /\ err[1] = "forbidden character in string at line %d"
    /\ Len(input) >= 4
    /\ SubSeq(input, 1, 3) = <<QUOTE, QUOTE, QUOTE>>

(***************************************************************************)
(* C22.  A Control-Z that is the very last character of the text is        *)
(* end-of-input: the text gives the tokens (types, values, lines, columns  *)
(* and end positions) of the text without it, and fails if and only if     *)
(* that text fails (the text without it not ending in a Control-Z itself). *)
(***************************************************************************)
EndsWithControlZ(src) == Len(src) >= 1 /\ src[Len(src)] = CtrlZ

WithoutLast(src) == SubSeq(src, 1, Len(src) - 1)

C22_TrailingControlZ ==
    (phase = "lexed" /\ EndsWithControlZ(input)
                     /\ ~EndsWithControlZ(WithoutLast(input)))
        => LET r == collectTokens(WithoutLast(input))
           IN /\ tokens = r.toks
              /\ (err = nil) <=> (r.err = nil)

\* where the claim holds: a Control-Z that closes the text at the start of
\* a token
ControlZAtTokenStart ==
    /\ phase = "lexed"
    /\ EndsWithControlZ(input)
    /\ tokens # nil
    /\ Len(tokens) >= 2

(***************************************************************************)
(* C23.  A text and the text with every LF line terminator (an LF that     *)
(* does not follow a CR) replaced by CR LF give the same outcome: the      *)
(* same number of tokens with the same types and lines (so each CR LF is   *)
(* one newline token and one more line), success or the same error at the  *)
(* same line, and trees of the same shape (directives, nesting and         *)
(* number of arguments).                                                   *)
(***************************************************************************)
RECURSIVE ToCRLFFrom(_, _)
ToCRLFFrom(src, i) ==
    IF i > Len(src) THEN <<>>
    ELSE IF src[i] = LF /\ (i = 1 \/ src[i - 1] # CR)
    THEN <<CR, LF>> \o ToCRLFFrom(src, i + 1)
    ELSE <<src[i]>> \o ToCRLFFrom(src, i + 1)

ToCRLF(src) == ToCRLFFrom(src, 1)

HasLoneLF(src) == \E i \in DOMAIN src : src[i] = LF /\ (i = 1 \/ src[i - 1] # CR)

RECURSIVE Shape(_)
Shape(ds) ==
    [i \in DOMAIN ds |->
        [args |-> Len(ds[i].Arguments), subs |-> Shape(ds[i].Subdirectives)]]

\* the same error: the same message at the same line
SameError(e1, e2) ==
    /\ (e1 = nil) <=> (e2 = nil)
    /\ e1 # nil => /\ e1[1] = e2[1]
                   /\ Len(e1) = Len(e2)
                   /\ Len(e1) >= 2 => e1[2] = e2[2]

SameTokensAndLines(r1, r2) ==
    /\ Len(r1.toks) = Len(r2.toks)
    /\ \A k \in DOMAIN r1.toks :
           /\ r1.toks[k].tok.Type = r2.toks[k].tok.Type
           /\ r1.toks[k].tok.Line = r2.toks[k].tok.Line
           /\ r2.toks[k].tok.Value = ToCRLF(r1.toks[k].tok.Value)
    /\ SameError(r1.err, r2.err)

SameShape(o1, o2) ==
    /\ (o1.unit = nil) <=> (o2.unit = nil)
    /\ o1.unit # nil => Shape(o1.unit[1].Directives) = Shape(o2.unit[1].Directives)
    /\ SameError(o1.err, o2.err)

C23_CRLFSameOutcome ==
    /\ phase = "lexed" => SameTokensAndLines(TokensOf(input), TokensOf(ToCRLF(input)))
    /\ phase \in {"failed", "done"} => SameShape(Outcome, ParseText(ToCRLF(input)))

\* a block over several lines that end in LF was parsed
C23_Witness ==
    /\ phase = "done"
    /\ unit # nil
    /\ HasLoneLF(input)
    /\ \E i \in DOMAIN unit[1].Directives :
           Len(unit[1].Directives[i].Subdirectives) >= 1

(***************************************************************************)
(* C24.  A byte-order mark at the very start of a text is skipped and is   *)
(* in no token: BOM + text gives the tokens of text (types, values, lines  *)
(* and columns; the end positions are one code point further) and the      *)
(* same error, if any.  No other byte-order mark is skipped: when the      *)
(* text is tokenized to its end every byte-order mark but a leading one    *)
(* is in the value of a token.                                             *)
(***************************************************************************)
StartsWithBOM(src) == Len(src) >= 1 /\ src[1] = BOM

CountOf(seq, x) == Cardinality({i \in DOMAIN seq : seq[i] = x})

RECURSIVE BOMsInValues(_)
BOMsInValues(toks) ==
    IF Len(toks) = 0 THEN 0
    ELSE CountOf(Head(toks).tok.Value, BOM) + BOMsInValues(Tail(toks))

ShiftEnds(toks, d) == [k \in DOMAIN toks |-> [toks[k] EXCEPT !.end = @ + d]]

C24_LeadingBOMSkipped ==
    phase = "lexed"
        => /\ (StartsWithBOM(input) /\ ~StartsWithBOM(Tail(input)))
                => LET r == collectTokens(Tail(input))
                   IN /\ err = r.err
                      /\ tokens = IF r.toks = nil THEN nil ELSE ShiftEnds(r.toks, 1)
           /\ tokens # nil
                => BOMsInValues(tokens)
                     = CountOf(input, BOM) - (IF StartsWithBOM(input) THEN 1 ELSE 0)

\* a text with a leading and a later byte-order mark was tokenized
C24_Witness ==
    /\ phase = "lexed"
    /\ tokens # nil
    /\ StartsWithBOM(input)
    /\ ~StartsWithBOM(Tail(input))
    /\ CountOf(input, BOM) = 2
    /\ Len(tokens) >= 3

(***************************************************************************)
(* C25.  The rendering of a tree is, for each directive in order at depth  *)
(* d: 4*d spaces, the arguments each between < and > with one space        *)
(* between two of them, then, only if the directive has a subdirective,    *)
(* " [", a newline, the children at depth d + 1, 4*d spaces and "]", and   *)
(* a newline.  A tree in which no directive has a subdirective renders     *)
(* without brackets.                                                       *)
(***************************************************************************)
Spaces(n) == [i \in 1..n |-> SPACE]

RECURSIVE RenderedArguments(_)
RenderedArguments(args) ==
    IF Len(args) = 0 THEN <<>>
    ELSE IF Len(args) = 1 THEN <<LANGLE>> \o args[1] \o <<RANGLE>>
    ELSE <<LANGLE>> \o args[1] \o <<RANGLE, SPACE>> \o RenderedArguments(Tail(args))

RECURSIVE Rendered(_, _)
Rendered(ds, d) ==
    IF Len(ds) = 0 THEN <<>>
    ELSE LET dir == Head(ds)
             children ==
                 IF Len(dir.Subdirectives) >= 1
                 THEN <<SPACE, LBRACKET, LF>> \o Rendered(dir.Subdirectives, d + 1)
                        \o Spaces(4 * d) \o <<RBRACKET>>
                 ELSE <<>>
         IN Spaces(4 * d) \o RenderedArguments(dir.Arguments) \o children \o <<LF>>
              \o Rendered(Tail(ds), d)

Leaf(dir) == Len(dir.Subdirectives) = 0

C25_Rendering ==
    phase = "printed"
        => /\ output = <<Rendered(unit[1].Directives, 0)>>
           /\ (\A i \in DOMAIN unit[1].Directives : Leaf(unit[1].Directives[i]))
                => /\ CountOf(output[1], LBRACKET) = 0
                   /\ CountOf(output[1], RBRACKET) = 0

\* a directive with two arguments and a block, and one without a block,
\* were rendered
C25_Witness ==
    /\ phase = "printed"
    /\ \E i, j \in DOMAIN unit[1].Directives :
           /\ Len(unit[1].Directives[i].Arguments) >= 2
           /\ ~Leaf(unit[1].Directives[i])
           /\ Leaf(unit[1].Directives[j])

(***************************************************************************)
(* C26.  Terminator style and quoting form do not show in the tree.  For   *)
(* a text that parses: the newline that ends a directive (it follows an    *)
(* argument or a }, and no { follows it) can be written ; and a ; that     *)
(* follows an argument or a } can be written as a newline; an unquoted     *)
(* argument can be written between one or between three quotes.  Each of   *)
(* these texts parses to the same tree and renders to the same text.       *)
(***************************************************************************)
ReplaceRange(src, from, to, seq) ==
    SubSeq(src, 1, from - 1) \o seq \o SubSeq(src, to + 1, Len(src))

\* the types of the tokens of toks, and of a token past the end
TypeAt(toks, k) == IF k \in DOMAIN toks THEN toks[k].tok.Type ELSE TokenEOF

RECURSIVE NextSignificant(_, _)
NextSignificant(toks, k) ==
    IF k \in DOMAIN toks /\ toks[k].tok.Type \in {TokenNewline, TokenComment}
    THEN NextSignificant(toks, k + 1)
    ELSE k

\* token k is a newline that ends the directive before it
EndingNewline(toks, k) ==
    /\ k > 1
    /\ toks[k].tok.Type = TokenNewline
    /\ toks[k - 1].tok.Type \in {TokenArgument, TokenRightBrace}
    /\ TypeAt(toks, NextSignificant(toks, k)) # TokenLeftBrace

\* token k is a ; that ends the directive before it
EndingSemicolon(toks, k) ==
    /\ k > 1
    /\ toks[k].tok.Type = TokenSemicolon
    /\ toks[k - 1].tok.Type \in {TokenArgument, TokenRightBrace}

\* token k is an unquoted argument written as its value
PlainArgument(src, toks, k) ==
    /\ toks[k].tok.Type = TokenArgument
    /\ Len(toks[k].tok.Value) >= 1
    /\ SubSeq(src, toks[k].end - Len(toks[k].tok.Value) + 1, toks[k].end)
         = toks[k].tok.Value
    /\ toks[k].tok.Value[1] # QUOTE

\* the text parses to the tree of this state, and renders alike
SameTree(src) ==
    LET o == ParseText(src)
    IN /\ o.err = nil
       /\ o.unit = unit
       /\ String(o.unit[1]) = String(unit[1])

Quoted(toks, k, q) == q \o toks[k].tok.Value \o q

C26_StyleDoesNotShow ==
    (phase = "done" /\ unit # nil)
        => LET toks == TokensOf(input).toks
           IN \A k \in DOMAIN toks :
                  /\ EndingNewline(toks, k)
                       => SameTree(ReplaceRange(input, toks[k].end, toks[k].end, <<SEMI>>))
                  /\ EndingSemicolon(toks, k)
                       => SameTree(ReplaceRange(input, toks[k].end, toks[k].end, <<LF>>))
                  /\ PlainArgument(input, toks, k)
                       => \A q \in {<<QUOTE>>, <<QUOTE, QUOTE, QUOTE>>} :
                              SameTree(ReplaceRange(input,
                                           toks[k].end - Len(toks[k].tok.Value) + 1,
                                           toks[k].end, Quoted(toks, k, q)))

\* a text with a directive ended by a newline and one ended by ; was parsed
C26_Witness ==
    /\ phase = "done"
    /\ unit # nil
    /\ Len(unit[1].Directives) >= 2
    /\ \E k, j \in DOMAIN TokensOf(input).toks :
           /\ EndingNewline(TokensOf(input).toks, k)
           /\ EndingSemicolon(TokensOf(input).toks, j)
           /\ PlainArgument(input, TokensOf(input).toks, k - 1)

(***************************************************************************)
(* C27.  Tokenizing and parsing make progress.  Every NextToken call that  *)
(* returns a token other than end-of-input leaves the scan position        *)
(* further on, so for a text of n characters the first n + 1 calls reach   *)
(* end-of-input or an error; between two directives that a directive list  *)
(* starts the parser takes at least one token, and it takes no more than   *)
(* n + 1 tokens in all.                                                    *)
(***************************************************************************)
\* the first n NextToken calls on a lexer: the tokens returned with the
\* positions reached, and whether end-of-input or an error was returned
RECURSIVE FirstCalls(_, _, _)
FirstCalls(l, toks, n) ==
    IF n = 0 THEN [toks |-> toks, finished |-> FALSE]
    ELSE LET r == NextToken(l) IN
         IF r.err # nil THEN [toks |-> toks, finished |-> TRUE]
         ELSE IF r.tok.Type = TokenEOF
         THEN [toks |-> Append(toks, [tok |-> r.tok, end |-> r.l.pos]), finished |-> TRUE]
         ELSE FirstCalls(r.l, Append(toks, [tok |-> r.tok, end |-> r.l.pos]), n - 1)

StrictlyAdvancing(toks) ==
    \A k \in DOMAIN toks :
        toks[k].tok.Type # TokenEOF
            => toks[k].end > (IF k = 1 THEN 0 ELSE toks[k - 1].end)

TokenBetweenDirectives ==
    \A i, j \in DOMAIN Log :
        (i < j /\ Log[i].ev = "begin" /\ Log[j].ev = "begin")
            => \E m \in (i + 1)..(j - 1) : Log[m].ev = "tok"

C27_Progress ==
    LET c == FirstCalls(NewLexer(input), <<>>, Len(input) + 1)
    IN /\ c.finished
       /\ StrictlyAdvancing(c.toks)
       /\ phase = "lexed" => (tokens = nil \/ tokens = c.toks)
       /\ phase \in {"failed", "done"}
            => /\ TokenBetweenDirectives
               /\ Len(TokTypes) <= Len(input) + 1

\* a text in which every character is a token of its own was parsed into
\* two directives
C27_Witness ==
    /\ phase = "done"
    /\ unit # nil
    /\ Len(unit[1].Directives) >= 2
    /\ Len(TokTypes) = Len(input) + 1

(***************************************************************************)
(* C28.  Parse succeeds only if the tokens are brace-balanced and were     *)
(* read to the end: after every token the parser took there are at least   *)
(* as many { as }, in all there are as many, the last token taken is       *)
(* end-of-input, the tokens taken are all the tokens of the text, and the  *)
(* tokenizer fails nowhere in the text.                                    *)
(***************************************************************************)
NoLexerError == \A i \in DOMAIN Log : Log[i].ev # "lexerr"

C28_SuccessMeansBalanced ==
    unit # nil
        => /\ \A n \in 0..Len(TokTypes) : Depth(TokTypes, n) >= 0
           /\ Depth(TokTypes, Len(TokTypes)) = 0
           /\ Len(TokTypes) >= 1
           /\ TokTypes[Len(TokTypes)] = TokenEOF
           /\ TokTypes = SrcTypes
           /\ TokensOf(input).err = nil
           /\ NoLexerError

\* a text with a directive in a block, closed, and a comment was parsed
C28_Witness ==
    /\ phase = "done"
    /\ unit # nil
    /\ \E i \in DOMAIN unit[1].Directives :
           Len(unit[1].Directives[i].Subdirectives) >= 1
    /\ \E i \in DOMAIN input : input[i] = HASH

(***************************************************************************)
(* C29.  The parser never calls NextToken after the tokenizer returned     *)
(* end-of-input or an error: nothing is fetched after either, every token  *)
(* but the first is fetched while the current token is a newline, an       *)
(* argument, a line continuation, a ; a { or a }, and a tokenizer error    *)
(* is the last thing that happens and is the error returned.               *)
(***************************************************************************)
Fetch(e) == e.ev \in {"tok", "lexerr"}

LastFetch(e) == e.ev = "lexerr" \/ (e.ev = "tok" /\ e.type = TokenEOF)

AdvanceFrom ==
    {TokenNewline, TokenArgument, TokenLineContinuation, TokenSemicolon,
     TokenLeftBrace, TokenRightBrace}

C29_NoFetchAfterEnd ==
    /\ \A i, j \in DOMAIN Log : (i < j /\ LastFetch(Log[i])) => ~Fetch(Log[j])
    /\ \A k \in DOMAIN TokTypes : k < Len(TokTypes) => TokTypes[k] \in AdvanceFrom
    /\ \A i \in DOMAIN Log :
           Log[i].ev = "lexerr"
               => /\ i = Len(Log)
                  /\ \A k \in DOMAIN TokTypes : TokTypes[k] \in AdvanceFrom
                  /\ unit = nil
                  /\ err # nil
                  /\ err = TokensOf(input).err

\* the tokenizer failed inside a block, and the parse ended there
C29_Witness ==
    /\ phase = "done"
    /\ Len(Log) >= 1
    /\ Log[Len(Log)].ev = "lexerr"
    /\ Depth(TokTypes, Len(TokTypes)) >= 1

(***************************************************************************)
(* C30.  No run ends with the error at the end of parseDirective           *)
(* ("expected newline, semicolon, or block after directive") or with       *)
(* parseBlock's "expected '{'": every error is the tokenizer's or one of  *)
(* the other grammar errors.  The tokens the parser takes are never        *)
(* comments, so a current token that is neither an argument nor a line     *)
(* continuation is a newline, a ; a { a } or end-of-input.                 *)
(***************************************************************************)
UnreachableMsgs == {UnexpectedTokenMsg, ExpectedLeftBraceMsg}

C30_UnreachableErrors ==
    /\ err # nil => err[1] \notin UnreachableMsgs
    /\ phase \in {"failed", "done"}
         => /\ err # nil => err = TokensOf(input).err \/ err[1] \in GrammarMsgs \ UnreachableMsgs
            /\ \A k \in DOMAIN TokTypes :
                   TokTypes[k] \in {TokenArgument, TokenLineContinuation}
                                    \cup {TokenNewline, TokenSemicolon, TokenLeftBrace,
                                          TokenRightBrace, TokenEOF}

\* a line continuation and an argument after it were taken by
\* parseArguments, and the directive was returned
C30_Witness ==
    /\ phase = "done"
    /\ unit # nil
    /\ \E i, j, k \in DOMAIN Log :
           /\ i < j /\ j < k
           /\ Log[i].ev = "tok" /\ Log[i].type = TokenLineContinuation
           /\ Log[j].ev = "tok" /\ Log[j].type = TokenArgument
           /\ Log[k].ev = "end"

(***************************************************************************)
(* C31.  After every successful NextToken call the lexer's line counter    *)
(* is 1 plus the number of line terminators consumed so far (a CR LF pair  *)
(* counting once), the terminators inside quoted arguments and line        *)
(* continuations included, and the Line of every token is the line of the  *)
(* source text on which the token starts (for a line-continuation token,   *)
(* starts or ends).                                                        *)
(***************************************************************************)
\* the line terminators among the first n characters, a CR LF pair once
TerminatorsUpTo(src, n) ==
    Cardinality({j \in 1..n :
                    /\ IsLineTerminator(src[j])
                    /\ ~(src[j] = LF /\ j > 1 /\ src[j - 1] = CR)})

\* the 1-based line of the character at index i
LineOf(src, i) == 1 + TerminatorsUpTo(src, i - 1)

\* the line counter after each successful call, from lexer l on
RECURSIVE CounterAfterCalls(_)
CounterAfterCalls(l) ==
    LET r == NextToken(l) IN
    IF r.err # nil THEN TRUE
    ELSE /\ r.l.line = 1 + TerminatorsUpTo(l.input, r.l.pos)
         /\ (r.tok.Type = TokenEOF \/ CounterAfterCalls(r.l))

TokenOnItsLine(src, toks, k) ==
    \/ toks[k].tok.Line = LineOf(src, TokenStart(src, toks, k - 1))
    \/ /\ toks[k].tok.Type = TokenLineContinuation
       /\ toks[k].tok.Line = 1 + TerminatorsUpTo(src, toks[k].end)

C31_LineCounter ==
    phase = "lexed"
        => /\ CounterAfterCalls(NewLexer(input))
           /\ \A k \in DOMAIN TokensOf(input).toks :
                  TokenOnItsLine(input, TokensOf(input).toks, k)

HasTripleQuote(src) ==
    \E i \in DOMAIN src :
        i + 2 <= Len(src) /\ SubSeq(src, i, i + 2) = <<QUOTE, QUOTE, QUOTE>>

\* where the claim holds: the terminators are newline tokens, line
\* continuations, or inside a single-quoted argument
LinesCountedOutsideTripleQuoted ==
    (phase = "lexed" /\ ~HasTripleQuote(input))
        => /\ CounterAfterCalls(NewLexer(input))
           /\ \A k \in DOMAIN TokensOf(input).toks :
                  TokenOnItsLine(input, TokensOf(input).toks, k)

\* an argument and, on a later line, the token after it were scanned
LinesCountedWitness ==
    /\ phase = "lexed"
    /\ ~HasTripleQuote(input)
    /\ tokens # nil
    /\ \E k \in DOMAIN tokens :
           /\ k < Len(tokens)
           /\ tokens[k].tok.Type = TokenArgument
           /\ tokens[k + 1].tok.Line > tokens[k].tok.Line

====
